---- MODULE Spec2Model ----
(***************************************************************************)
(* A model of beanhub-import: the rule processor (processor.py), the       *)
(* change-set computer and the change-set applier (post_processor.py) and  *)
(* the run of an import (engine.py).                                       *)
(*                                                                         *)
(* Conventions.  An optional value (Python's `X | None`) is a sequence of  *)
(* length at most one: None is <<>>, a present value v is <<v>>.  A path   *)
(* is the sequence of its components.  A dict is modelled by the sequence  *)
(* of the items it was built from together with the look-up the code does  *)
(* on it (the last item with a key wins).                                  *)
(***************************************************************************)
EXTENDS Integers, Sequences, FiniteSets, TLC

VARIABLES
    pc,                 \* position of the operation under study
    generated_txns,     \* list[GeneratedTransaction] given to compute_changes
    imported_txns,      \* list[BeancountTransaction] given to compute_changes
    deleted_txns,       \* list[DeletedTransaction] given to compute_changes
    change_sets,        \* dict[Path, ChangeSet] returned by compute_changes
    tree,               \* the parsed ledger file given to apply_change_set
    change_set,         \* the ChangeSet given to apply_change_set
    remove_dangling,    \* the remove_dangling argument / option
    actual_entry,       \* what update_transaction returned for the updated entry
    new_tree,           \* the tree returned by apply_change_set
    ledger,             \* the ledger files under the working directory
    run,                \* which run of the import is under way
    call,               \* the arguments of a call of the function under study
    outcome             \* what the call yielded, returned or raised

compute_vars == <<generated_txns, imported_txns, deleted_txns, change_sets>>
apply_vars == <<tree, change_set, remove_dangling, actual_entry, new_tree>>
run_vars == <<ledger, run>>
process_vars == <<call, outcome>>
vars == <<pc, compute_vars, apply_vars, run_vars, process_vars>>

----------------------------------------------------------------------------
(* Optional values and small helpers                                        *)

None == <<>>
Some(x) == <<x>>
IsNone(o) == o = <<>>
Val(o) == o[1]

Range(s) == {s[i] : i \in DOMAIN s}

\* All sequences over S of length at most n.
SeqsUpTo(S, n) == UNION {[1..k -> S] : k \in 0..n}

Max(S) == CHOOSE x \in S : \A y \in S : y <= x

\* The variables of an operation that is not part of a specification.
IdleCompute ==
    /\ generated_txns = None
    /\ imported_txns = None
    /\ deleted_txns = None
    /\ change_sets = None

IdleApply ==
    /\ tree = None
    /\ change_set = None
    /\ remove_dangling = FALSE
    /\ actual_entry = None
    /\ new_tree = None

IdleRun ==
    /\ ledger = None
    /\ run = None

IdleProcess ==
    /\ call = None
    /\ outcome = None

----------------------------------------------------------------------------
(* Paths: pathlib's `/` and resolve()                                       *)

work_dir == <<"w">>

RECURSIVE resolve_from(_, _)
resolve_from(stack, rest) ==
    IF rest = <<>> THEN stack
    ELSE IF Head(rest) = ".."
         THEN resolve_from(IF stack = <<>> THEN <<>>
                           ELSE SubSeq(stack, 1, Len(stack) - 1), Tail(rest))
         ELSE resolve_from(Append(stack, Head(rest)), Tail(rest))

\* Path.resolve(): the ".." components are folded away.
resolve(path) == resolve_from(<<>>, path)

\* work_dir / file
join(dir, file) == dir \o file

----------------------------------------------------------------------------
(* compute_changes                                                          *)

\* `key in {txn.id: txn for txn in txns}`
has_id(txns, id) == \E i \in DOMAIN txns : txns[i].id = id

\* `{txn.id: txn for txn in txns}[id]`: a later item replaces an earlier one.
dict_get(txns, id) == txns[Max({i \in DOMAIN txns : txns[i].id = id})]

deleted_txn_ids(deleted) == {deleted[i].id : i \in DOMAIN deleted}

\* is_removed when the two files are compared as written, not resolved.
is_removed_unresolved(txn, generated, deleted, wd) ==
    \/ txn.id \in deleted_txn_ids(deleted)
    \/ /\ has_id(generated, txn.id)
       /\ txn.file # join(wd, dict_get(generated, txn.id).file)

\* is_removed without the branch for a generated transaction in another file.
is_removed_deleted_only(txn, generated, deleted, wd) ==
    txn.id \in deleted_txn_ids(deleted)

\* The first branch of the loop over imported_txns and its second branch:
\* the existing transaction is queued for removal on its file.
is_removed(txn, generated, deleted, wd) ==
    \/ txn.id \in deleted_txn_ids(deleted)
    \/ /\ has_id(generated, txn.id)
       /\ resolve(txn.file) # resolve(join(wd, dict_get(generated, txn.id).file))

\* is_dangling without the test of the override flags.
is_dangling_any_override(txn, generated, deleted, wd) ==
    /\ ~ is_removed(txn, generated, deleted, wd)
    /\ ~ has_id(generated, txn.id)

\* The third branch: no generated counterpart and no override flags.
is_dangling(txn, generated, deleted, wd) ==
    /\ ~ is_removed(txn, generated, deleted, wd)
    /\ ~ has_id(generated, txn.id)
    /\ IsNone(txn.override)

\* is_skipped when the loop over generated_txns forgets the deleted ids.
is_skipped_never(txn, deleted) == FALSE

\* `if txn.id in deleted_txn_ids: continue` of the loop over generated_txns.
is_skipped(txn, deleted) == txn.id \in deleted_txn_ids(deleted)

\* The generated transaction updates the existing transaction of its id.
is_update(txn, imported, deleted, wd) ==
    /\ ~ is_skipped(txn, deleted)
    /\ has_id(imported, txn.id)
    /\ resolve(dict_get(imported, txn.id).file) = resolve(join(wd, txn.file))

\* is_add with the `else` dropped: the transaction is added next to its update.
is_add_next_to_update(txn, imported, deleted, wd) ==
    ~ is_skipped(txn, deleted)

\* The `else` branch of the loop over generated_txns: the transaction is added.
is_add(txn, imported, deleted, wd) ==
    /\ ~ is_skipped(txn, deleted)
    /\ ~ is_update(txn, imported, deleted, wd)

\* to_update[file] after the first n generated transactions: a dict from the
\* line number of the existing transaction to the TransactionUpdate.
RECURSIVE to_update(_, _, _, _, _, _)
to_update(file, n, generated, imported, deleted, wd) ==
    IF n = 0 THEN <<>>
    ELSE LET prev == to_update(file, n - 1, generated, imported, deleted, wd)
             txn == generated[n]
         IN  IF /\ is_update(txn, imported, deleted, wd)
                /\ resolve(join(wd, txn.file)) = file
             THEN LET imported_txn == dict_get(imported, txn.id)
                      item == [txn |-> txn, override |-> imported_txn.override]
                  IN  [l \in DOMAIN prev \cup {imported_txn.lineno} |->
                          IF l = imported_txn.lineno THEN item ELSE prev[l]]
             ELSE prev

compute_changes(generated, imported, wd, deleted) ==
    LET to_remove(f) ==
            SelectSeq(imported,
                LAMBDA t : t.file = f /\ is_removed(t, generated, deleted, wd))
        dangling(f) ==
            SelectSeq(imported,
                LAMBDA t : t.file = f /\ is_dangling(t, generated, deleted, wd))
        to_add(f) ==
            SelectSeq(generated,
                LAMBDA t : /\ resolve(join(wd, t.file)) = f
                           /\ is_add(t, imported, deleted, wd))
        upd(f) == to_update(f, Len(generated), generated, imported, deleted, wd)
        keys == {imported[i].file : i \in DOMAIN imported}
                \cup {resolve(join(wd, generated[i].file)) : i \in DOMAIN generated}
        all_files == {f \in keys : \/ to_remove(f) # <<>>
                                   \/ to_add(f) # <<>>
                                   \/ DOMAIN upd(f) # {}
                                   \/ dangling(f) # <<>>}
    IN  [f \in all_files |-> [remove   |-> to_remove(f),
                              add      |-> to_add(f),
                              update   |-> upd(f),
                              dangling |-> dangling(f)]]

----------------------------------------------------------------------------
(* Ledger entries and their text                                            *)

IMPORT_ID_KEY == "import-id"
IMPORT_SRC_KEY == "import-src"
IMPORT_OVERRIDE_KEY == "import-override"
ADD_ENTRY_LINENO_OFFSET == 100000

\* json.dumps of a string gives the ESCAPED_STRING token, json.loads its string.
json_dumps(str) == [json |-> str]
json_loads(token) == token.json

\* The names of tags and links in the order of Python's string comparison.
NameOrder == <<"Hash1", "Hash2", "Link1", "NewLink1", "NewTag1">>
name_rank(name) == CHOOSE i \in DOMAIN NameOrder : NameOrder[i] = name

\* A TAG or LINK token: its first character and the name after it.
annotation(prefix, name) == <<prefix, name>>
startswith(value, prefix) == value[1] = prefix

\* v1 < v2 for two annotation values with the same first character
less(v1, v2) == name_rank(v1[2]) < name_rank(v2[2])

RECURSIVE sorted(_)
\* list.sort(): a stable insertion of each item after the items not greater
sorted(list) ==
    IF list = <<>> THEN <<>>
    ELSE LET init == sorted(SubSeq(list, 1, Len(list) - 1))
             x == list[Len(list)]
             k == Cardinality({i \in DOMAIN init : ~ less(x, init[i])})
         IN  SubSeq(init, 1, k) \o <<x>> \o SubSeq(init, k + 1, Len(init))

\* ImportOverrideFlag
OverrideFlags == {"none", "all", "date", "flag", "narration", "payee",
                  "hashtags", "links", "postings"}

\* parse_override_flags that leaves the unknown tokens out of the flags
parse_override_flags_skipping_unknown(parts) ==
    LET flags == Range(parts) \cap OverrideFlags
    IN  IF ("all" \in flags \/ "none" \in flags) /\ Cardinality(flags) > 1
        THEN None
        ELSE Some(flags)

\* parse_override_flags: `value` is given as the list value.split(",")
parse_override_flags(parts) ==
    IF \E i \in DOMAIN parts : parts[i] \notin OverrideFlags
    THEN None
    ELSE LET flags == Range(parts)
         IN  IF ("all" \in flags \/ "none" \in flags) /\ Cardinality(flags) > 1
             THEN None
             ELSE Some(flags)

\* posting_to_text: the columns of the posting line
posting_to_text(posting) ==
    <<posting.account>>
    \o (IF IsNone(posting.amount) THEN <<>>
        ELSE <<<<Val(posting.amount).number, Val(posting.amount).currency>>>>)
    \o (IF IsNone(posting.cost) THEN <<>> ELSE <<Val(posting.cost)>>)
    \o (IF IsNone(posting.price) THEN <<>>
        ELSE <<<<"@", Val(posting.price).number, Val(posting.price).currency>>>>)

\* A metadata item of a generated transaction has a reserved name.
is_reserved(item) == item.name \in {IMPORT_ID_KEY, IMPORT_SRC_KEY}

\* txn_to_text raises ValueError
txn_to_text_raises(txn) ==
    /\ ~ IsNone(txn.metadata)
    /\ \E i \in DOMAIN Val(txn.metadata) : is_reserved(Val(txn.metadata)[i])

\* txn_to_text: the header line's columns, the metadata lines, the postings
txn_to_text(txn) ==
    [date |-> txn.date,
     flag |-> txn.flag,
     payee |-> IF IsNone(txn.payee) THEN None ELSE Some(json_dumps(Val(txn.payee))),
     narration |-> json_dumps(txn.narration),
     annotations |->
        (IF IsNone(txn.tags) THEN <<>>
         ELSE [i \in DOMAIN Val(txn.tags) |-> annotation("#", Val(txn.tags)[i])])
        \o (IF IsNone(txn.links) THEN <<>>
            ELSE [i \in DOMAIN Val(txn.links) |-> annotation("^", Val(txn.links)[i])]),
     metadata |->
        <<[name |-> IMPORT_ID_KEY, value |-> json_dumps(txn.id)]>>
        \o (IF IsNone(txn.sources) THEN <<>>
            ELSE <<[name |-> IMPORT_SRC_KEY, value |-> json_dumps(Val(txn.sources))]>>)
        \o (IF IsNone(txn.metadata) THEN <<>>
            ELSE [i \in DOMAIN Val(txn.metadata) |->
                    [name |-> Val(txn.metadata)[i].name,
                     value |-> json_dumps(Val(txn.metadata)[i].value)]]),
     postings |-> [i \in DOMAIN txn.postings |-> posting_to_text(txn.postings[i])]]

\* to_parser_entry: the one entry parsed from the text, its statement put on
\* line `lineno`.  A header without tags and links has no annotations.
to_parser_entry(text, lineno) ==
    [type |-> "txn",
     comments |-> <<>>,
     statement |-> [line |-> lineno,
                    date |-> text.date,
                    flag |-> text.flag,
                    payee |-> text.payee,
                    narration |-> text.narration,
                    annotations |-> IF text.annotations = <<>> THEN None
                                    ELSE Some(text.annotations)],
     metadata |-> text.metadata,
     postings |-> text.postings]

\* extract_txn_statement
extract_txn_statement(statement) ==
    [date |-> statement.date,
     flag |-> statement.flag,
     payee |-> IF IsNone(statement.payee) THEN None
               ELSE Some(json_loads(Val(statement.payee))),
     narration |-> json_loads(statement.narration),
     hashtags |-> IF IsNone(statement.annotations) THEN None
                  ELSE Some(sorted(SelectSeq(Val(statement.annotations),
                                             LAMBDA v : startswith(v, "#")))),
     links |-> IF IsNone(statement.annotations) THEN None
               ELSE Some(sorted(SelectSeq(Val(statement.annotations),
                                          LAMBDA v : startswith(v, "^"))))]

\* gen_annotations
gen_annotations(hashtags, links) ==
    IF IsNone(hashtags) /\ IsNone(links) THEN None
    ELSE Some((IF IsNone(hashtags) THEN <<>> ELSE Val(hashtags))
              \o (IF IsNone(links) THEN <<>> ELSE Val(links)))

\* gen_txn_statement; the caller sets the line
gen_txn_statement(txn_statement, line) ==
    [line |-> line,
     date |-> txn_statement.date,
     flag |-> txn_statement.flag,
     payee |-> IF IsNone(txn_statement.payee) THEN None
               ELSE Some(json_dumps(Val(txn_statement.payee))),
     narration |-> json_dumps(txn_statement.narration),
     annotations |-> gen_annotations(txn_statement.hashtags, txn_statement.links)]

----------------------------------------------------------------------------
(* update_transaction and apply_change_set                                  *)

HeaderFlags == {"date", "flag", "payee", "narration", "hashtags", "links"}

\* The statement built at lines 333-351: each attribute from the new
\* statement when its flag is in the override and from the old one otherwise.
replacement_statement(entry, new_entry, override) ==
    LET txn_statement == extract_txn_statement(entry.statement)
        new_txn_statement == extract_txn_statement(new_entry.statement)
        pick(flag) == IF flag \in override THEN new_txn_statement ELSE txn_statement
    IN  gen_txn_statement(
            [date |-> pick("date").date,
             flag |-> pick("flag").flag,
             payee |-> pick("payee").payee,
             narration |-> pick("narration").narration,
             hashtags |-> pick("hashtags").hashtags,
             links |-> pick("links").links],
            entry.statement.line)

\* update_transaction with the tests of ALL and NONE exchanged
update_transaction_none_replaces(entry, transaction_update, lineno) ==
    LET new_entry == to_parser_entry(txn_to_text(transaction_update.txn), lineno)
    IN  IF IsNone(transaction_update.override)
           \/ "none" \in Val(transaction_update.override)
        THEN new_entry
        ELSE entry

\* update_transaction with every header attribute taken from the new entry
\* as soon as one header flag is set
update_transaction_whole_header(entry, transaction_update, lineno) ==
    LET new_entry == to_parser_entry(txn_to_text(transaction_update.txn), lineno)
        override == Val(transaction_update.override)
    IN  IF IsNone(transaction_update.override) \/ "all" \in override
        THEN new_entry
        ELSE IF "none" \in override THEN entry
        ELSE [entry EXCEPT
                !.statement =
                    IF HeaderFlags \cap override # {}
                    THEN [new_entry.statement EXCEPT !.line = entry.statement.line]
                    ELSE @,
                !.postings =
                    IF "postings" \in override THEN new_entry.postings ELSE @]

update_transaction(entry, transaction_update, lineno) ==
    LET new_entry == to_parser_entry(txn_to_text(transaction_update.txn), lineno)
        override == Val(transaction_update.override)
    IN  IF IsNone(transaction_update.override) \/ "all" \in override
        THEN new_entry
        ELSE IF "none" \in override THEN entry
        ELSE [entry EXCEPT
                !.statement =
                    IF HeaderFlags \cap override # {}
                    THEN replacement_statement(entry, new_entry, override)
                    ELSE @,
                !.postings =
                    IF "postings" \in override THEN new_entry.postings ELSE @]

\* lines_to_remove with the dangling transactions taken whatever the flag
lines_to_remove_with_dangling(cs, rd) ==
    LET txns_to_remove == cs.remove \o cs.dangling
    IN  {txns_to_remove[i].lineno : i \in DOMAIN txns_to_remove}

\* lines_to_remove of apply_change_set
lines_to_remove(cs, rd) ==
    LET txns_to_remove == cs.remove \o (IF rd THEN cs.dangling ELSE <<>>)
    IN  {txns_to_remove[i].lineno : i \in DOMAIN txns_to_remove}

\* One round of the loop over the existing entries: what it appends.
expand_existing(entry, cs, rd) ==
    IF entry.type = "comments" THEN <<entry>>
    ELSE IF entry.statement.line \in lines_to_remove(cs, rd) THEN <<>>
    ELSE IF entry.statement.line \in DOMAIN cs.update
         THEN <<[update_transaction(entry, cs.update[entry.statement.line],
                                    entry.statement.line)
                    EXCEPT !.comments = entry.comments]>>
         ELSE <<entry>>

\* entries_to_add: the i-th addition (counted from 0) on line OFFSET + i
entries_to_add(cs) ==
    [k \in DOMAIN cs.add |->
        to_parser_entry(txn_to_text(cs.add[k]), ADD_ENTRY_LINENO_OFFSET + (k - 1))]

RECURSIVE expand_entries(_, _, _, _)
expand_entries(entries, n, cs, rd) ==
    IF n = 0 THEN <<>>
    ELSE expand_entries(entries, n - 1, cs, rd) \o expand_existing(entries[n], cs, rd)

\* apply_change_set: a tree is the list of its entries and its tail comments
apply_change_set(tr, cs, rd) ==
    [entries |-> expand_entries(tr.entries, Len(tr.entries), cs, rd)
                 \o entries_to_add(cs),
     tail_comments |-> tr.tail_comments]

----------------------------------------------------------------------------
(* Inputs of compute_changes                                                *)

MaxGenerated == 2
MaxImported == 2

Ids == {"id0", "id1"}

\* The `file` of a generated transaction is relative to the working directory.
GeneratedFiles == {<<"main.bean">>, <<"other.bean">>, <<"books", "..", "main.bean">>}

\* The files of the ledger, in the order the scanner visits them.
LedgerFiles == <<join(work_dir, <<"main.bean">>), join(work_dir, <<"other.bean">>)>>

\* Generated transactions as compute_changes reads them; `sources` tells the
\* record a transaction was generated from.
GeneratedFor(ids_files) ==
    [i \in DOMAIN ids_files |->
        [id |-> ids_files[i][1], file |-> ids_files[i][2], sources |-> <<i>>]]

\* The existing transactions the scanner reports for a ledger given as, per
\* file, the (id, override) of its transactions: files in scan order, line
\* numbers growing within a file.
RECURSIVE ScanFiles(_, _)
ScanFiles(per_file, k) ==
    IF k = 0 THEN <<>>
    ELSE ScanFiles(per_file, k - 1) \o
         [i \in DOMAIN per_file[k] |->
            [file |-> LedgerFiles[k], lineno |-> i,
             id |-> per_file[k][i][1], override |-> per_file[k][i][2]]]

ComputeOverrides == {None, Some({"narration"})}

GeneratedLists ==
    {GeneratedFor(x) : x \in SeqsUpTo(Ids \X GeneratedFiles, MaxGenerated)}

ScannedLists ==
    {ScanFiles(l, Len(LedgerFiles)) :
        l \in {l \in [DOMAIN LedgerFiles ->
                        SeqsUpTo(Ids \X ComputeOverrides, MaxImported)] :
                 Len(l[1]) + Len(l[2]) <= MaxImported}}

\* compute_changes reads the deleted transactions as the set of their ids.
DeletedLists ==
    {<<>>, <<[id |-> "id0"]>>, <<[id |-> "id1"]>>, <<[id |-> "id0"], [id |-> "id1"]>>}

InitCompute ==
    /\ pc = "input"
    /\ generated_txns \in GeneratedLists
    /\ imported_txns \in ScannedLists
    /\ deleted_txns \in DeletedLists
    /\ change_sets = <<>>
    /\ IdleApply
    /\ IdleRun
    /\ IdleProcess

ComputeChanges ==
    /\ pc = "input"
    /\ change_sets' = compute_changes(generated_txns, imported_txns, work_dir,
                                      deleted_txns)
    /\ pc' = "computed"
    /\ UNCHANGED <<generated_txns, imported_txns, deleted_txns, apply_vars, run_vars, process_vars>>

NextCompute == ComputeChanges

SpecCompute == InitCompute /\ [][NextCompute]_vars

----------------------------------------------------------------------------
(* One update applied to a ledger file (SpecUpdate)                         *)

MaxAnnotations == 2

RECURSIVE SetToSeq(_)
SetToSeq(S) ==
    IF S = {} THEN <<>>
    ELSE LET x == CHOOSE y \in S : TRUE IN <<x>> \o SetToSeq(S \ {x})

\* The values of an import-override metadata item, as the list of their
\* comma-separated parts; None: the entry has no such item.  The empty value
\* splits into one empty part.
OverrideValues ==
    {None, Some(<<"none">>), Some(<<"all">>)}
    \cup {Some(SetToSeq(S)) : S \in SUBSET (OverrideFlags \ {"none", "all"}) \ {{}}}
    \cup {Some(<<"">>), Some(<<"bogus">>), Some(<<"payee", "bogus">>),
          Some(<<"payee", "">>), Some(<<"none", "payee">>), Some(<<"all", "date">>),
          Some(<<"all", "none">>), Some(<<"none", "none">>),
          Some(<<"payee", "payee">>)}

ExistingAnnotations ==
    {None} \cup
    {Some(a) : a \in SeqsUpTo({annotation("#", "Hash1"), annotation("#", "Hash2"),
                               annotation("^", "Link1")}, MaxAnnotations) \ {<<>>}}

\* A transaction of the ledger that carries an import-id.
ExistingEntry(line, id, payee, annotations, override_value) ==
    [type |-> "txn",
     comments |-> <<"; a comment">>,
     statement |-> [line |-> line,
                    date |-> "2024-08-29",
                    flag |-> "*",
                    payee |-> IF IsNone(payee) THEN None
                              ELSE Some(json_dumps(Val(payee))),
                    narration |-> json_dumps("MOCK_NARRATION"),
                    annotations |-> annotations],
     metadata |->
        <<[name |-> IMPORT_ID_KEY, value |-> json_dumps(id)]>>
        \o (IF IsNone(override_value) THEN <<>>
            ELSE <<[name |-> IMPORT_OVERRIDE_KEY,
                    value |-> json_dumps(Val(override_value))]>>),
     postings |-> <<<<"Assets:Cash", <<"-100.00", "USD">>>>, <<"Expenses:Food">>>>]

\* A transaction of the ledger that was not imported.
OtherEntry(line) ==
    [type |-> "txn",
     comments |-> <<>>,
     statement |-> [line |-> line, date |-> "2024-08-01", flag |-> "*",
                    payee |-> None, narration |-> json_dumps("by hand"),
                    annotations |-> None],
     metadata |-> <<>>,
     postings |-> <<<<"Assets:Cash">>>>]

\* A generated transaction.
Generated(id, file, payee, tags, links) ==
    [id |-> id,
     sources |-> Some(<<"import-data/mock.csv">>),
     file |-> file,
     date |-> "2024-05-05",
     flag |-> "!",
     narration |-> "NEW_DESC",
     payee |-> payee,
     tags |-> tags,
     links |-> links,
     metadata |-> None,
     postings |-> <<[account |-> "Assets:Cash",
                     amount |-> Some([number |-> "111.45", currency |-> "USD"]),
                     price |-> None, cost |-> None],
                    [account |-> "Expenses:Food",
                     amount |-> Some([number |-> "-111.45", currency |-> "USD"]),
                     price |-> None, cost |-> None]>>]

InitUpdate ==
    /\ pc = "input"
    /\ IdleCompute
    /\ IdleRun
    /\ IdleProcess
    /\ \E payee \in {None, Some("MOCK_PAYEE")}, annotations \in ExistingAnnotations,
          value \in OverrideValues,
          new_payee \in {None, Some("NEW_PAYEE")},
          tags \in {None, Some(<<"NewTag1", "Hash1">>)},
          links \in {None, Some(<<"NewLink1">>)} :
          /\ tree = [entries |->
                        <<OtherEntry(1),
                          ExistingEntry(5, "MOCK_IMPORT_ID", payee,
                                        annotations, value)>>,
                     tail_comments |-> <<"; the end">>]
          /\ change_set =
                [remove |-> <<>>,
                 add |-> <<>>,
                 update |->
                    [l \in {5} |->
                        [txn |-> Generated("MOCK_IMPORT_ID", <<"main.bean">>,
                                           new_payee, tags, links),
                         override |-> IF IsNone(value) THEN None
                                      ELSE parse_override_flags(Val(value))]],
                 dangling |-> <<>>]
    /\ remove_dangling = FALSE
    /\ actual_entry = None
    /\ new_tree = None

\* apply_change_set on the file, with the call of update_transaction it makes
ApplyUpdate ==
    /\ pc = "input"
    /\ actual_entry' =
          LET entry == tree.entries[2]
          IN  update_transaction(entry, change_set.update[entry.statement.line],
                                 entry.statement.line)
    /\ new_tree' = apply_change_set(tree, change_set, remove_dangling)
    /\ pc' = "applied"
    /\ UNCHANGED <<compute_vars, tree, change_set, remove_dangling, run_vars, process_vars>>

NextUpdate == ApplyUpdate

SpecUpdate == InitUpdate /\ [][NextUpdate]_vars

----------------------------------------------------------------------------
(* A run of the import (Spec)                                               *)

\* The dates of the entries in their order.
DateOrder == <<"2024-05-05", "2024-08-01", "2024-08-29">>
date_rank(date) == CHOOSE i \in DOMAIN DateOrder : DateOrder[i] = date

\* The value of the last metadata item of the entry with the given name.
has_metadata(entry, name) == \E i \in DOMAIN entry.metadata : entry.metadata[i].name = name
metadata_value(entry, name) ==
    json_loads(entry.metadata[Max({i \in DOMAIN entry.metadata :
                                      entry.metadata[i].name = name})].value)

\* What extract_existing_transactions yields for the entries of one file.
existing_of_file(bean_path, entries) ==
    LET imported == SelectSeq(entries,
                        LAMBDA e : e.type = "txn" /\ has_metadata(e, IMPORT_ID_KEY))
    IN  [i \in DOMAIN imported |->
            [file |-> bean_path,
             lineno |-> imported[i].statement.line,
             id |-> metadata_value(imported[i], IMPORT_ID_KEY),
             override |->
                IF has_metadata(imported[i], IMPORT_OVERRIDE_KEY)
                THEN parse_override_flags(metadata_value(imported[i], IMPORT_OVERRIDE_KEY))
                ELSE None]]

RECURSIVE extract_from(_, _)
extract_from(files, k) ==
    IF k = 0 THEN <<>>
    ELSE extract_from(files, k - 1) \o
         (IF IsNone(files[LedgerFiles[k]]) THEN <<>>
          ELSE existing_of_file(LedgerFiles[k], Val(files[LedgerFiles[k]]).entries))

\* A scanner that reads the first file of the ledger only.
extract_existing_transactions_first_file(files) == extract_from(files, 1)

\* extract_existing_transactions over the files of the ledger
extract_existing_transactions(files) == extract_from(files, Len(LedgerFiles))

\* The formatter writes the entries in the order of (date, line); the next
\* parse of the file numbers them anew.
before(e1, e2) ==
    \/ date_rank(e1.statement.date) < date_rank(e2.statement.date)
    \/ /\ e1.statement.date = e2.statement.date
       /\ e1.statement.line < e2.statement.line

RECURSIVE sort_entries(_)
sort_entries(entries) ==
    IF entries = <<>> THEN <<>>
    ELSE LET init == sort_entries(SubSeq(entries, 1, Len(entries) - 1))
             x == entries[Len(entries)]
             k == Cardinality({i \in DOMAIN init : ~ before(x, init[i])})
         IN  SubSeq(init, 1, k) \o <<x>> \o SubSeq(init, k + 1, Len(init))

written(tr) ==
    LET entries == sort_entries(tr.entries)
    IN  [entries |-> [i \in DOMAIN entries |->
                        [entries[i] EXCEPT !.statement.line = i]],
         tail_comments |-> tr.tail_comments]

\* The tree parsed from the texts of the additions, for a file that does not exist.
new_file_tree(cs) ==
    [entries |-> [k \in DOMAIN cs.add |-> to_parser_entry(txn_to_text(cs.add[k]), k)],
     tail_comments |-> <<>>]

\* The loop of ImportRuleEngine.changesets over the change sets: the content
\* of the file after it.
file_after(files, changes, rd, f) ==
    IF f \notin DOMAIN changes THEN files[f]
    ELSE IF IsNone(files[f])
         THEN Some(written(new_file_tree(changes[f])))
         ELSE Some(written(apply_change_set(Val(files[f]), changes[f], rd)))

\* apply_change_set raises: txn_to_text raises for an addition, or
\* update_transaction raises for an entry that is kept and updated (it
\* renders the new transaction before it looks at the override).
apply_change_set_raises(tr, cs, rd) ==
    \/ \E k \in DOMAIN cs.add : txn_to_text_raises(cs.add[k])
    \/ \E n \in DOMAIN tr.entries :
          /\ tr.entries[n].type = "txn"
          /\ tr.entries[n].statement.line \notin lines_to_remove(cs, rd)
          /\ tr.entries[n].statement.line \in DOMAIN cs.update
          /\ txn_to_text_raises(cs.update[tr.entries[n].statement.line].txn)

\* The round of the loop of ImportRuleEngine.changesets for the file raises:
\* `raise ValueError("Expect new transactions to add only")`, or the text of
\* a transaction cannot be made.
file_raises(files, changes, rd, f) ==
    IF IsNone(files[f])
    THEN \/ changes[f].remove # <<>>
         \/ DOMAIN changes[f].update # {}
         \/ \E k \in DOMAIN changes[f].add : txn_to_text_raises(changes[f].add[k])
    ELSE apply_change_set_raises(Val(files[f]), changes[f], rd)

\* The loop of ImportRuleEngine.changesets raises in some round.
changesets_raises(files, changes, rd) ==
    \E f \in DOMAIN changes : file_raises(files, changes, rd, f)

\* Path.relative_to(base) raises when the path does not lie under base.
is_relative_to(filepath, base) ==
    Len(filepath) >= Len(base) /\ SubSeq(filepath, 1, Len(base)) = base

\* A strip_base_path that takes any path.
strip_base_path_any(base, filepath) == FALSE

\* Whether strip_base_path(base, filepath) raises.
strip_base_path_raises(base, filepath) == ~ is_relative_to(filepath, base)

\* The loop of ImportRuleEngine.process_transaction over the outputs: the
\* file of each generated transaction is resolved and stripped of the
\* working directory for the log.
process_transaction_raises(generated) ==
    \E i \in DOMAIN generated :
        strip_base_path_raises(resolve(work_dir),
                               resolve(join(work_dir, generated[i].file)))

\* The files a run can touch: those of the ledger, and one next to the
\* working directory.
OutsideFile == <<"..", "outside.bean">>
FileSystem == Range(LedgerFiles) \cup {resolve(join(work_dir, OutsideFile))}

\* The ledger before the first run: main.bean exists, other.bean exists when
\* it has an entry; the imported entries carry an id and maybe override flags.
LedgerOverrideValues == {None, Some(<<"narration">>)}

InitialLedgers ==
    {[f \in FileSystem |->
        LET k == IF f \in Range(LedgerFiles)
                 THEN CHOOSE k \in DOMAIN LedgerFiles : LedgerFiles[k] = f
                 ELSE 0
        IN  IF k = 0 \/ (k > 1 /\ l[k] = <<>>) THEN None
            ELSE Some([entries |->
                          [i \in DOMAIN l[k] |->
                              ExistingEntry(i, l[k][i][1], None, None, l[k][i][2])],
                       tail_comments |-> <<>>])] :
     l \in {l \in [DOMAIN LedgerFiles ->
                     SeqsUpTo(Ids \X LedgerOverrideValues, MaxImported)] :
              Len(l[1]) + Len(l[2]) <= MaxImported}}

\* What the rules generate from the records: the same in every run.
GeneratedRuns ==
    {[i \in DOMAIN x |-> Generated(x[i][1], x[i][2], None, None, None)] :
        x \in SeqsUpTo(Ids \X {<<"main.bean">>, <<"other.bean">>, OutsideFile},
                       MaxGenerated)}

\* The transactions the rules delete: the same in every run.
DeletedRuns == {<<>>, <<[id |-> "id0"]>>}

Init ==
    /\ pc = "start"
    /\ run = "first"
    /\ ledger \in InitialLedgers
    /\ generated_txns \in GeneratedRuns
    /\ deleted_txns \in DeletedRuns
    /\ remove_dangling \in BOOLEAN
    /\ imported_txns = <<>>
    /\ change_sets = <<>>
    /\ tree = None
    /\ change_set = None
    /\ actual_entry = None
    /\ new_tree = None
    /\ IdleProcess

\* ImportRuleEngine.run up to the call of changesets: the records are
\* processed and the existing transactions are collected from the ledger.
Collect ==
    /\ pc = "start"
    /\ run \in {"first", "second"}
    /\ ~ process_transaction_raises(generated_txns)
    /\ imported_txns' = extract_existing_transactions(ledger)
    /\ pc' = "collected"
    /\ UNCHANGED <<generated_txns, deleted_txns, change_sets, apply_vars, run_vars, process_vars>>

\* ImportRuleEngine.changesets: the call of compute_changes
Changes ==
    /\ pc = "collected"
    /\ change_sets' = compute_changes(generated_txns, imported_txns, work_dir,
                                      deleted_txns)
    /\ pc' = "computed"
    /\ UNCHANGED <<generated_txns, imported_txns, deleted_txns, apply_vars, run_vars, process_vars>>

\* ImportRuleEngine.changesets: the loop that rewrites the files
Write ==
    /\ pc = "computed"
    /\ ~ changesets_raises(ledger, change_sets, remove_dangling)
    /\ ledger' = [f \in DOMAIN ledger |->
                    file_after(ledger, change_sets, remove_dangling, f)]
    /\ run' = IF run = "first" THEN "second" ELSE "done"
    /\ pc' = "start"
    /\ UNCHANGED <<compute_vars, apply_vars, process_vars>>

\* ImportRuleEngine.run when process_transaction raises: the run ends there.
ProcessFails ==
    /\ pc = "start"
    /\ run \in {"first", "second"}
    /\ process_transaction_raises(generated_txns)
    /\ pc' = "failed"
    /\ UNCHANGED <<compute_vars, apply_vars, run_vars, process_vars>>

Next == Collect \/ ProcessFails \/ Changes \/ Write

Spec == Init /\ [][Next]_vars

----------------------------------------------------------------------------
(* A run over generated transactions that carry metadata (SpecReserved)     *)

MaxExisting == 1

\* The metadata a rule gives a generated transaction.
MetadataItem(name) == [name |-> name, value |-> "x"]
GeneratedMetadata ==
    {None, Some(<<MetadataItem("note")>>), Some(<<MetadataItem(IMPORT_ID_KEY)>>),
     Some(<<MetadataItem("note"), MetadataItem(IMPORT_SRC_KEY)>>)}

\* What the rules generate: transactions with distinct ids.
GeneratedWithMetadata ==
    {[i \in DOMAIN x |->
        [Generated(x[i][1], x[i][2], None, None, None) EXCEPT !.metadata = x[i][3]]] :
        x \in {y \in SeqsUpTo(Ids \X {<<"main.bean">>, <<"other.bean">>}
                                  \X GeneratedMetadata, MaxGenerated) :
                  \A i, j \in DOMAIN y : i # j => y[i][1] # y[j][1]}}

\* The ledger: main.bean with imported entries under some override,
\* other.bean missing.
ReservedLedgers ==
    {[f \in FileSystem |->
        IF f = LedgerFiles[1]
        THEN Some([entries |-> [i \in DOMAIN l |->
                                  ExistingEntry(i, l[i][1], None, None, l[i][2])],
                   tail_comments |-> <<>>])
        ELSE None] :
     l \in SeqsUpTo(Ids \X {None, Some(<<"none">>), Some(<<"all">>),
                             Some(<<"narration">>)}, MaxExisting)}

InitReserved ==
    /\ pc = "start"
    /\ run = "first"
    /\ ledger \in ReservedLedgers
    /\ generated_txns \in GeneratedWithMetadata
    /\ deleted_txns \in DeletedRuns
    /\ remove_dangling \in BOOLEAN
    /\ imported_txns = <<>>
    /\ change_sets = <<>>
    /\ tree = None
    /\ change_set = None
    /\ actual_entry = None
    /\ new_tree = None
    /\ IdleProcess

\* ImportRuleEngine.changesets when a round of its loop raises: the files of
\* the rounds before it are written.  The change sets are iterated in the
\* order of a frozenset of paths, so any set of the other files whose rounds
\* do not raise can come before the failing one.
ChangesetsFails ==
    /\ pc = "computed"
    /\ \E f \in DOMAIN change_sets :
          /\ file_raises(ledger, change_sets, remove_dangling, f)
          /\ \E done \in SUBSET {g \in DOMAIN change_sets \ {f} :
                    ~ file_raises(ledger, change_sets, remove_dangling, g)} :
                ledger' = [g \in DOMAIN ledger |->
                              IF g \in done
                              THEN file_after(ledger, change_sets, remove_dangling, g)
                              ELSE ledger[g]]
    /\ pc' = "failed"
    /\ UNCHANGED <<compute_vars, apply_vars, run, process_vars>>

NextReserved == Collect \/ Changes \/ Write \/ ChangesetsFails

SpecReserved == InitReserved /\ [][NextReserved]_vars

----------------------------------------------------------------------------
(* The steps of ImportRuleEngine.run in their order (SpecOrder)             *)

\* What the rules generate from the records, with distinct ids, and what
\* they delete: the same in every run.
ProcessedRuns ==
    [generated : {[i \in DOMAIN x |-> Generated(x[i][1], x[i][2], None, None, None)] :
                    x \in {y \in SeqsUpTo(Ids \X {<<"main.bean">>, <<"other.bean">>,
                                                   OutsideFile}, MaxGenerated) :
                              \A i, j \in DOMAIN y : i # j => y[i][1] # y[j][1]}},
     deleted : DeletedRuns]

InitOrder ==
    /\ pc = "start"
    /\ run = "first"
    /\ ledger \in InitialLedgers
    /\ call \in ProcessedRuns
    /\ outcome = None
    /\ generated_txns = <<>>
    /\ deleted_txns = <<>>
    /\ remove_dangling \in BOOLEAN
    /\ imported_txns = <<>>
    /\ change_sets = <<>>
    /\ tree = None
    /\ change_set = None
    /\ actual_entry = None
    /\ new_tree = None

\* ImportRuleEngine.process_transaction: every record is processed and the
\* outputs are collected.
ProcessImports ==
    /\ pc = "start"
    /\ run \in {"first", "second"}
    /\ ~ process_transaction_raises(call.generated)
    /\ generated_txns' = call.generated
    /\ deleted_txns' = call.deleted
    /\ pc' = "processed"
    /\ UNCHANGED <<imported_txns, change_sets, apply_vars, run_vars, process_vars>>

\* ImportRuleEngine.process_transaction raises: the run ends there.
ProcessImportsFails ==
    /\ pc = "start"
    /\ run \in {"first", "second"}
    /\ process_transaction_raises(call.generated)
    /\ pc' = "failed"
    /\ UNCHANGED <<compute_vars, apply_vars, run_vars, process_vars>>

\* ImportRuleEngine.run: the existing transactions are collected from the
\* ledger.
ScanLedger ==
    /\ pc = "processed"
    /\ imported_txns' = extract_existing_transactions(ledger)
    /\ pc' = "collected"
    /\ UNCHANGED <<generated_txns, deleted_txns, change_sets, apply_vars, run_vars, process_vars>>

NextOrder ==
    ProcessImports \/ ProcessImportsFails \/ ScanLedger \/ Changes \/ Write

SpecOrder == InitOrder /\ [][NextOrder]_vars

----------------------------------------------------------------------------
(* apply_change_set on the change set computed for a file (SpecApply)       *)

MaxEntries == 3

\* Comments that belong to no entry.
CommentsEntry == [type |-> "comments", comments |-> <<"; a note">>]

\* The entries of a ledger file: imported ones, one of them on the date of
\* the generated transactions, one written by hand, and comments.
EntryKinds ==
    {[kind |-> "imported", id |-> "id0", override |-> None, date |-> "2024-08-29"],
     [kind |-> "imported", id |-> "id0", override |-> Some(<<"narration">>),
      date |-> "2024-08-29"],
     [kind |-> "imported", id |-> "id1", override |-> None, date |-> "2024-05-05"],
     [kind |-> "other", id |-> "", override |-> None, date |-> "2024-05-05"],
     [kind |-> "comments", id |-> "", override |-> None, date |-> ""]}

EntryOf(k, line) ==
    IF k.kind = "comments" THEN CommentsEntry
    ELSE IF k.kind = "other"
    THEN [OtherEntry(line) EXCEPT !.statement.date = k.date]
    ELSE [ExistingEntry(line, k.id, None, None, k.override)
             EXCEPT !.statement.date = k.date]

\* main.bean: its entries one line after the other, from the top of the
\* file or below its first ADD_ENTRY_LINENO_OFFSET lines.
AppliedLedgers ==
    {[f \in FileSystem |->
        IF f = LedgerFiles[1]
        THEN Some([entries |-> [i \in DOMAIN l |-> EntryOf(l[i], base + i)],
                   tail_comments |-> <<"; the end">>])
        ELSE None] :
     l \in SeqsUpTo(EntryKinds, MaxEntries), base \in {0, ADD_ENTRY_LINENO_OFFSET}}

\* What the rules generate: transactions with distinct ids.
GeneratedDistinct ==
    {[i \in DOMAIN x |-> Generated(x[i][1], x[i][2], None, None, None)] :
        x \in {y \in SeqsUpTo(Ids \X {<<"main.bean">>, <<"other.bean">>},
                               MaxGenerated) :
                  \A i, j \in DOMAIN y : i # j => y[i][1] # y[j][1]}}

InitApply ==
    /\ pc = "start"
    /\ run = "first"
    /\ ledger \in AppliedLedgers
    /\ generated_txns \in GeneratedDistinct
    /\ deleted_txns \in DeletedRuns
    /\ remove_dangling \in BOOLEAN
    /\ imported_txns = <<>>
    /\ change_sets = <<>>
    /\ tree = None
    /\ change_set = None
    /\ actual_entry = None
    /\ new_tree = None
    /\ IdleProcess

\* The round of the loop of ImportRuleEngine.changesets for a file that
\* exists, up to the call of apply_change_set.
ApplyChangeSet ==
    /\ pc = "computed"
    /\ \E f \in DOMAIN change_sets :
          /\ ~ IsNone(ledger[f])
          /\ ~ apply_change_set_raises(Val(ledger[f]), change_sets[f], remove_dangling)
          /\ tree' = Val(ledger[f])
          /\ change_set' = change_sets[f]
          /\ new_tree' = apply_change_set(Val(ledger[f]), change_sets[f],
                                          remove_dangling)
    /\ pc' = "applied"
    /\ UNCHANGED <<compute_vars, remove_dangling, actual_entry, run_vars, process_vars>>

NextApply == Collect \/ Changes \/ ApplyChangeSet

SpecApply == InitApply /\ [][NextApply]_vars

----------------------------------------------------------------------------
(* processor.py: process_transaction                                        *)

\* A string is the sequence of its pieces; the empty string is <<>>.
Str(s) == IF s = "" THEN <<>> ELSE <<s>>
Optional(v) == IF IsNone(v) THEN None ELSE Some(Str(Val(v)))
Min(S) == CHOOSE x \in S : \A y \in S : x <= y

\* str(lineno)
Digits == <<"1", "2">>
str(n) == Digits[n]

\* The token the context binds to `omit`.
OMIT_TOKEN == Str("<omit>")

\* Templates: a literal text, `{{ name }}`, and the two expressions of the
\* built-in defaults.
Lit(text) == [kind |-> "lit", text |-> text]
Var(name) == [kind |-> "var", text |-> name]
TextThenOmit(text) == [kind |-> "text+omit", text |-> text]

DEFAULT_TXN_TEMPLATE ==
    [id        |-> Some([kind |-> "file:lineno", text |-> ""]),
     date      |-> Some(Var("date")),
     flag      |-> Some(Lit("*")),
     narration |-> Some([kind |-> "desc|bank_desc", text |-> ""]),
     payee     |-> None]

\* What a value of the context prints as.
to_text(v) == IF IsNone(v) THEN Str("None") ELSE Val(v)

\* template_env.from_string(value).render(**template_ctx)
render(value, template_ctx) ==
    CASE value.kind = "lit" -> Str(value.text)
      [] value.kind = "var" ->
            IF value.text \in DOMAIN template_ctx
            THEN to_text(template_ctx[value.text]) ELSE <<>>
      [] value.kind = "text+omit" ->
            Str(value.text) \o to_text(template_ctx["omit"])
      [] value.kind = "file:lineno" ->
            to_text(template_ctx["file"]) \o Str(":") \o to_text(template_ctx["lineno"])
      [] value.kind = "desc|bank_desc" ->
            IF template_ctx["desc"] \in {None, Some(<<>>)}
            THEN to_text(template_ctx["bank_desc"])
            ELSE to_text(template_ctx["desc"])

\* dataclasses.asdict(txn) with the omit token
txn_ctx(txn) ==
    [file      |-> Optional(txn.file),
     lineno    |-> Some(Str(str(txn.lineno))),
     date      |-> Optional(txn.date),
     desc      |-> Optional(txn.desc),
     bank_desc |-> Optional(txn.bank_desc),
     omit      |-> Some(OMIT_TOKEN)]

\* The context render_str renders with: the input's variables and then the
\* matched variables are laid over the fields of the record.
template_ctx_of(txn, input_vars, matched_vars) ==
    LET with_input == IF IsNone(input_vars) THEN txn_ctx(txn)
                      ELSE Val(input_vars) @@ txn_ctx(txn)
    IN  IF IsNone(matched_vars) THEN with_input
        ELSE Val(matched_vars) @@ with_input

\* A render_str that returns every rendering as it is.
render_str_keeping(value, template_ctx) ==
    IF IsNone(value) THEN None ELSE Some(render(Val(value), template_ctx))

render_str(value, template_ctx) ==
    IF IsNone(value) THEN None
    ELSE LET result_value == render(Val(value), template_ctx)
         IN  IF result_value = OMIT_TOKEN THEN None ELSE Some(result_value)

first_non_none(values) ==
    IF \A i \in DOMAIN values : IsNone(values[i]) THEN None
    ELSE values[Min({i \in DOMAIN values : ~ IsNone(values[i])})]

\* getattr(txn, key): the value with its Python type; date and post_date
\* hold datetime.date objects, the matched text fields hold str.
field_type(key) == IF key \in {"date", "post_date"} THEN "date" ELSE "str"

field_value(txn, key) ==
    IF IsNone(txn[key]) THEN None
    ELSE Some([type |-> field_type(key), value |-> Val(txn[key])])

\* str.lower() over the letters of the model.
lower_char(c) == IF c = "A" THEN "a" ELSE IF c = "B" THEN "b" ELSE c
lower(s) == [i \in DOMAIN s |-> lower_char(s[i])]

str_startswith(s, prefix) ==
    Len(prefix) <= Len(s) /\ SubSeq(s, 1, Len(prefix)) = prefix

str_endswith(s, suffix) ==
    Len(suffix) <= Len(s) /\ SubSeq(s, Len(s) - Len(suffix) + 1, Len(s)) = suffix

str_contains(s, part) ==
    \E i \in 0..(Len(s) - Len(part)) : SubSeq(s, i + 1, i + Len(part)) = part

\* re.match: the expression is tried at the start of the string only.  An
\* expression is a sequence of letters and "." with an optional final "$".
re_match(regex, s, ignore_case) ==
    LET anchored == Len(regex) > 0 /\ regex[Len(regex)] = "$"
        body == IF anchored THEN SubSeq(regex, 1, Len(regex) - 1) ELSE regex
        same(a, b) == IF ignore_case THEN lower_char(a) = lower_char(b) ELSE a = b
    IN  /\ Len(body) <= Len(s)
        /\ anchored => Len(body) = Len(s)
        /\ \A i \in DOMAIN body : body[i] = "." \/ same(body[i], s[i])

StrPatternKinds == {"regex", "equals", "prefix", "suffix", "contains", "one_of"}

\* match_str raises: the final else for a pattern of no handled class, and
\* the str operations applied to a value that is no str.
match_str_raises(pattern, value) ==
    IF IsNone(value) THEN FALSE
    ELSE IF pattern.kind \notin StrPatternKinds THEN TRUE
    ELSE IF Val(value).type = "str" THEN FALSE
    ELSE CASE pattern.kind = "regex" -> TRUE
           [] pattern.kind = "equals" -> FALSE
           [] pattern.kind = "prefix" -> TRUE
           [] pattern.kind = "suffix" -> TRUE
           [] pattern.kind = "contains" -> TRUE
           [] pattern.kind = "one_of" ->
                IF ~ pattern.regex THEN pattern.ignore_case
                ELSE pattern.one_of # <<>>

\* The boolean match_str returns when it does not raise.
match_str(pattern, value) ==
    IF IsNone(value) THEN FALSE
    ELSE IF Val(value).type # "str" THEN FALSE
    ELSE LET v == Val(value).value
         IN  CASE pattern.kind = "regex" -> re_match(pattern.regex, v, FALSE)
               [] pattern.kind = "equals" -> v = pattern.equals
               [] pattern.kind = "prefix" -> str_startswith(v, pattern.prefix)
               [] pattern.kind = "suffix" -> str_endswith(v, pattern.suffix)
               [] pattern.kind = "contains" -> str_contains(v, pattern.contains)
               [] pattern.kind = "one_of" ->
                    IF ~ pattern.regex
                    THEN IF ~ pattern.ignore_case
                         THEN v \in Range(pattern.one_of)
                         ELSE lower(v) \in {lower(item) : item \in Range(pattern.one_of)}
                    ELSE \E item \in Range(pattern.one_of) :
                            re_match(item, v, pattern.ignore_case)
               [] OTHER -> FALSE

\* rule.model_dump().items(): the fields in their order of declaration.
FieldOrder == <<"extractor", "file", "date", "post_date", "desc", "bank_desc">>

field_rank(key) == CHOOSE i \in DOMAIN FieldOrder : FieldOrder[i] = key

\* Whether all(...) gets to the field: every earlier pattern has returned True.
evaluated(txn, rule, key) ==
    \A other \in DOMAIN rule :
        (field_rank(other) < field_rank(key) /\ ~ IsNone(rule[other]))
            => /\ ~ match_str_raises(Val(rule[other]), field_value(txn, other))
               /\ match_str(Val(rule[other]), field_value(txn, other))

match_transaction_raises(txn, rule) ==
    \E key \in DOMAIN rule :
        /\ ~ IsNone(rule[key])
        /\ evaluated(txn, rule, key)
        /\ match_str_raises(Val(rule[key]), field_value(txn, key))

match_transaction_ignoring_null(txn, rule) ==
    \A key \in DOMAIN rule :
        IsNone(rule[key]) \/ IsNone(txn[key])
            \/ match_str(Val(rule[key]), field_value(txn, key))

match_transaction(txn, rule) ==
    \A key \in DOMAIN rule :
        IsNone(rule[key]) \/ match_str(Val(rule[key]), field_value(txn, key))

\* The sub-rules the loop gets to return at: cond and the common condition
\* both match.
sub_rule_hits(txn, rules, common_condition) ==
    {i \in DOMAIN rules :
        /\ match_transaction(txn, rules[i].cond)
        /\ \/ IsNone(common_condition)
           \/ match_transaction(txn, Val(common_condition))}

\* The sub-rules whose evaluation raises.
sub_rule_raises(txn, rules, common_condition) ==
    {i \in DOMAIN rules :
        \/ match_transaction_raises(txn, rules[i].cond)
        \/ /\ match_transaction(txn, rules[i].cond)
           /\ ~ IsNone(common_condition)
           /\ match_transaction_raises(txn, Val(common_condition))}

match_transaction_with_vars_raises(txn, rules, common_condition) ==
    LET raising == sub_rule_raises(txn, rules, common_condition)
        hits == sub_rule_hits(txn, rules, common_condition) \ raising
    IN  \E i \in raising : \A j \in hits : i < j

match_transaction_with_vars(txn, rules, common_condition) ==
    LET hits == sub_rule_hits(txn, rules, common_condition)
    IN  IF hits = {} THEN None ELSE Some(rules[Min(hits)])

\* Whether the loop goes past the `continue` of an import rule.
rule_matches(txn, import_rule) ==
    IF import_rule.match.is_list
    THEN ~ IsNone(match_transaction_with_vars(txn, import_rule.match.list,
                                              import_rule.common_cond))
    ELSE match_transaction(txn, import_rule.match.cond)

\* matched_vars once the rule has matched
matched_vars_of(txn, import_rule) ==
    IF import_rule.match.is_list
    THEN LET matched == Val(match_transaction_with_vars(
                                txn, import_rule.match.list, import_rule.common_cond))
             items == IF IsNone(matched.vars) THEN <<>> ELSE Val(matched.vars)
         IN  Some([key \in DOMAIN items |->
                     IF IsNone(items[key]) THEN None
                     ELSE Some(render(Val(items[key]), txn_ctx(txn)))])
    ELSE None

\* The fields process_transaction reads from input_config.
details(input_config) ==
    IF IsNone(input_config)
    THEN [default_txn |-> None, prepend_postings |-> None,
          appending_postings |-> None, append_postings |-> None,
          default_file |-> None]
    ELSE Val(input_config)

attr(template, key) == IF IsNone(template) THEN None ELSE Val(template)[key]

\* The id template of an action, looked up in the default transaction first.
txn_id_default_first(action, default_txn, default_import_id) ==
    first_non_none(<<attr(default_txn, "id"),
                     attr(action.txn, "id"),
                     default_import_id,
                     DEFAULT_TXN_TEMPLATE["id"]>>)

\* txn_id of an action
txn_id_of(action, default_txn, default_import_id) ==
    first_non_none(<<attr(action.txn, "id"),
                     attr(default_txn, "id"),
                     default_import_id,
                     DEFAULT_TXN_TEMPLATE["id"]>>)

\* txn_id of a record no rule has processed
unprocessed_txn_id(default_txn, default_import_id) ==
    first_non_none(<<attr(default_txn, "id"),
                     default_import_id,
                     DEFAULT_TXN_TEMPLATE["id"]>>)

template_values(action, default_txn, default_import_id) ==
    [key \in {"date", "flag", "narration", "payee", "id"} |->
        IF key = "id" THEN txn_id_of(action, default_txn, default_import_id)
        ELSE first_non_none(<<Val(action.txn)[key],
                              attr(default_txn, key),
                              DEFAULT_TXN_TEMPLATE[key]>>)]

\* posting_templates of an add_txn action
posting_templates_of(action, c) ==
    (IF ~ IsNone(c.prepend_postings) THEN Val(c.prepend_postings) ELSE <<>>)
    \o (IF ~ IsNone(Val(action.txn).postings) THEN Val(Val(action.txn).postings)
        ELSE IF ~ IsNone(attr(c.default_txn, "postings"))
             THEN Val(attr(c.default_txn, "postings"))
             ELSE <<>>)
    \o (IF ~ IsNone(c.appending_postings) THEN Val(c.appending_postings)
        ELSE IF ~ IsNone(c.append_postings) THEN Val(c.append_postings)
             ELSE <<>>)

process_links_or_tags(links_or_tags, template_ctx) ==
    IF IsNone(links_or_tags) THEN None
    ELSE LET items == Val(links_or_tags)
             rendered == [i \in DOMAIN items |-> render_str(Some(items[i]), template_ctx)]
             result == SelectSeq(rendered, LAMBDA x : ~ IsNone(x) /\ Val(x) # <<>>)
         IN  IF result = <<>> THEN None
             ELSE Some([i \in DOMAIN result |-> Val(result[i])])

generated_metadata_of(metadata, template_ctx) ==
    IF IsNone(metadata) THEN None
    ELSE LET items == Val(metadata)
             rendered == [i \in DOMAIN items |->
                            [name  |-> render_str(Some(items[i].name), template_ctx),
                             value |-> render_str(Some(items[i].value), template_ctx)]]
             kept == SelectSeq(rendered,
                        LAMBDA m : /\ ~ IsNone(m.name) /\ Val(m.name) # <<>>
                                   /\ ~ IsNone(m.value) /\ Val(m.value) # <<>>)
         IN  IF kept = <<>> THEN None
             ELSE Some([i \in DOMAIN kept |->
                          [name |-> Val(kept[i].name), value |-> Val(kept[i].value)]])

amount_of(amount, template_ctx) ==
    IF IsNone(amount) THEN None
    ELSE Some([number   |-> render_str(Val(amount).number, template_ctx),
               currency |-> render_str(Val(amount).currency, template_ctx)])

generate_postings(posting_templates, template_ctx) ==
    [i \in DOMAIN posting_templates |->
        [account |-> render_str(posting_templates[i].account, template_ctx),
         amount  |-> amount_of(posting_templates[i].amount, template_ctx),
         price   |-> amount_of(posting_templates[i].price, template_ctx),
         cost    |-> render_str(posting_templates[i].cost, template_ctx)]]

\* Amount and GeneratedPosting refuse a None where they declare a str.
amount_raises(amount) ==
    ~ IsNone(amount) /\ (IsNone(Val(amount).number) \/ IsNone(Val(amount).currency))

generate_postings_raises(postings) ==
    \E i \in DOMAIN postings :
        \/ IsNone(postings[i].account)
        \/ amount_raises(postings[i].amount)
        \/ amount_raises(postings[i].price)

\* The GeneratedTransaction of an add_txn action, before its validation.
generated_transaction(action, txn, c, default_import_id, template_ctx) ==
    LET values == template_values(action, c.default_txn, default_import_id)
    IN  [type      |-> "generated",
         sources   |-> <<txn.file>>,
         file      |-> render_str(first_non_none(<<action.file, c.default_file>>),
                                  template_ctx),
         tags      |-> process_links_or_tags(Val(action.txn).tags, template_ctx),
         links     |-> process_links_or_tags(Val(action.txn).links, template_ctx),
         metadata  |-> generated_metadata_of(Val(action.txn).metadata, template_ctx),
         postings  |-> generate_postings(posting_templates_of(action, c), template_ctx),
         id        |-> render_str(values["id"], template_ctx),
         date      |-> render_str(values["date"], template_ctx),
         flag      |-> render_str(values["flag"], template_ctx),
         narration |-> render_str(values["narration"], template_ctx),
         payee     |-> render_str(values["payee"], template_ctx)]

\* The ValueError of a missing output file, and what GeneratedTransaction
\* and the postings refuse.
add_txn_raises(action, generated, c) ==
    \/ generate_postings_raises(generated.postings)
    \/ IsNone(first_non_none(<<action.file, c.default_file>>))
    \/ \E key \in {"file", "id", "date", "flag", "narration"} : IsNone(generated[key])

deleted_transaction(action, c, default_import_id, template_ctx) ==
    [type |-> "deleted",
     id   |-> render_str(txn_id_of(action, c.default_txn, default_import_id),
                         template_ctx)]

\* The body of `for action in import_rule.actions` over the first n actions:
\* what was yielded, and how the loop was left.
RECURSIVE run_actions(_, _, _, _, _, _)
run_actions(actions, n, txn, c, default_import_id, template_ctx) ==
    IF n = 0 THEN [yielded |-> <<>>, left |-> "end"]
    ELSE LET sofar == run_actions(actions, n - 1, txn, c, default_import_id, template_ctx)
             action == actions[n]
         IN  IF sofar.left # "end" THEN sofar
             ELSE IF action.type = "ignore"
             THEN [sofar EXCEPT !.left = "return"]
             ELSE IF action.type = "del_txn"
             THEN LET deleted == deleted_transaction(action, c, default_import_id,
                                                     template_ctx)
                  IN  IF IsNone(deleted.id) THEN [sofar EXCEPT !.left = "raise"]
                      ELSE [sofar EXCEPT !.yielded = Append(@, deleted)]
             ELSE LET generated == generated_transaction(action, txn, c,
                                        default_import_id, template_ctx)
                  IN  IF add_txn_raises(action, generated, c)
                      THEN [sofar EXCEPT !.left = "raise"]
                      ELSE [sofar EXCEPT !.yielded = Append(@, generated)]

\* A loop over the rules that goes on with the next rule after a match.
next_rule_following(import_rules, k) == k + 1

\* The rule the loop turns to after the actions of rule k: the `break`
\* leaves the loop.
next_rule(import_rules, k) == Len(import_rules) + 1

\* `for import_rule in import_rules` from rule k on.
RECURSIVE run_rules(_, _, _, _, _, _, _)
run_rules(import_rules, k, matched_vars, txn, c, default_import_id, input_vars) ==
    IF k > Len(import_rules)
    THEN [yielded |-> <<>>, left |-> "end", matched_vars |-> matched_vars]
    ELSE IF ~ rule_matches(txn, import_rules[k])
    THEN run_rules(import_rules, k + 1, None, txn, c, default_import_id, input_vars)
    ELSE LET matched == matched_vars_of(txn, import_rules[k])
             done == run_actions(import_rules[k].actions, Len(import_rules[k].actions),
                                 txn, c, default_import_id,
                                 template_ctx_of(txn, input_vars, matched))
             rest == run_rules(import_rules, next_rule(import_rules, k), matched,
                               txn, c, default_import_id, input_vars)
         IN  IF done.left # "end"
             THEN [yielded |-> done.yielded, left |-> done.left, matched_vars |-> matched]
             ELSE [yielded |-> done.yielded \o rest.yielded, left |-> rest.left,
                   matched_vars |-> rest.matched_vars]

\* The UnprocessedTransaction of a record no action has processed.
unprocessed_transaction(txn, c, default_import_id, template_ctx) ==
    [type      |-> "unprocessed",
     txn       |-> txn,
     import_id |-> render_str(unprocessed_txn_id(c.default_txn, default_import_id),
                              template_ctx),
     output_file |-> render_str(c.default_file, template_ctx),
     prepending_postings |->
        IF ~ IsNone(c.prepend_postings)
        THEN Some(generate_postings(Val(c.prepend_postings), template_ctx))
        ELSE None,
     appending_postings |->
        IF ~ IsNone(c.append_postings) /\ ~ IsNone(c.prepend_postings)
        THEN Some(generate_postings(Val(c.prepend_postings), template_ctx))
        ELSE None]

\* generate_postings(prepend_postings, ...) iterates None when only
\* append_postings is set, and the postings refuse a None account or amount.
unprocessed_raises(c, template_ctx) ==
    \/ ~ IsNone(c.append_postings) /\ IsNone(c.prepend_postings)
    \/ /\ ~ IsNone(c.prepend_postings)
       /\ generate_postings_raises(generate_postings(Val(c.prepend_postings), template_ctx))

\* The end of process_transaction once the loop over the rules is left:
\* the outputs it yielded, the value it returns and whether it raises.
process_result(loop, txn, c, default_import_id, template_ctx) ==
    IF loop.left = "raise"
    THEN [yielded |-> loop.yielded, returned |-> None, raised |-> TRUE]
    ELSE IF loop.left = "return" \/ loop.yielded # <<>>
    THEN [yielded |-> loop.yielded, returned |-> None, raised |-> FALSE]
    ELSE IF unprocessed_raises(c, template_ctx)
    THEN [yielded |-> <<>>, returned |-> None, raised |-> TRUE]
    ELSE [yielded |-> <<>>,
          returned |-> Some(unprocessed_transaction(txn, c, default_import_id,
                                                    template_ctx)),
          raised |-> FALSE]

\* The matched_vars the loop over the rules ends with.
last_matched_vars(import_rules, txn, c, default_import_id, input_vars) ==
    run_rules(import_rules, 1, None, txn, c, default_import_id, input_vars).matched_vars

process_transaction(import_rules, txn, input_config, default_import_id, input_vars) ==
    process_result(
        run_rules(import_rules, 1, None, txn, details(input_config),
                  default_import_id, input_vars),
        txn, details(input_config), default_import_id,
        template_ctx_of(txn, input_vars,
                        last_matched_vars(import_rules, txn, details(input_config),
                                          default_import_id, input_vars)))

----------------------------------------------------------------------------
(* One record processed by the import rules (SpecProcess)                   *)

MaxRules == 2

Equals(s) == [kind |-> "equals", equals |-> s]
OneOf(items) ==
    [kind |-> "one_of", one_of |-> items, regex |-> FALSE, ignore_case |-> FALSE]

\* A SimpleTxnMatchRule: a pattern or None per field of the record.
Cond(file, desc) == [file |-> file, desc |-> desc, bank_desc |-> None]

Simple(cond) == [is_list |-> FALSE, cond |-> cond, list |-> <<>>]
List(rules) == [is_list |-> TRUE, cond |-> Cond(None, None), list |-> rules]

Posting(account) ==
    [account |-> Some(Lit(account)), amount |-> None, price |-> None, cost |-> None]

Template(id, tags, postings) ==
    [id |-> id, date |-> None, flag |-> None, narration |-> None, payee |-> None,
     tags |-> tags, links |-> None, metadata |-> None, postings |-> postings]

AddTxn(file, template) == [type |-> "add_txn", file |-> file, txn |-> Some(template)]
DelTxn(template) == [type |-> "del_txn", file |-> None, txn |-> template]
Ignore == [type |-> "ignore", file |-> None, txn |-> None]

ImportRule(match, common_cond, actions) ==
    [match |-> match, common_cond |-> common_cond, actions |-> actions]

\* The import rules the lists of rules are made of.
ImportRules ==
    {   \* coffee goes to its own file under an id of the rule
        ImportRule(Simple(Cond(None, Some(Equals("coffee")))), None,
            <<AddTxn(Some(Lit("coffee.bean")),
                     [Template(Some(Lit("coffee-id")), None,
                               Some(<<Posting("Expenses:Coffee")>>))
                        EXCEPT !.payee = Some(TextThenOmit("Cafe ")),
                               !.links = Some(<<Var("omit")>>)])>>),
        \* every record: a transaction under the default id and file, and the
        \* deletion of the transaction named after the description; the
        \* common_cond of a rule that is no list of matches
        ImportRule(Simple(Cond(None, None)), Some(Cond(None, Some(Equals("never")))),
            <<AddTxn(None,
                     [Template(None, Some(<<Lit("Imported"), Var("omit"),
                                            TextThenOmit("Kept")>>), None)
                        EXCEPT !.payee = Some(Var("omit")),
                               !.links = Some(<<TextThenOmit("receipt"), Var("memo")>>),
                               !.metadata =
                                    Some(<<[name |-> Var("omit"), value |-> Lit("dropped")],
                                           [name |-> Lit("memo"), value |-> Var("omit")],
                                           [name |-> Lit("note"),
                                            value |-> TextThenOmit("see ")]>>)]),
              DelTxn(Some([id |-> Some(Var("desc"))]))>>),
        \* a list of matches with variables and no action
        ImportRule(List(<<[cond |-> Cond(None, Some(OneOf(<<"rent", "coffee">>))),
                           vars |-> Some([category |-> Some(Lit("housing"))])]>>),
                   Some(Cond(Some(Equals("mock.csv")), None)),
            <<>>),
        \* rent is deleted under the default id and then ignored
        ImportRule(Simple(Cond(None, Some(Equals("rent")))), None,
            <<DelTxn(None), Ignore>>),
        \* a list of matches whose common condition holds for rent only; the
        \* id is the matched variable
        ImportRule(List(<<[cond |-> Cond(None, Some(Equals("coffee"))), vars |-> None],
                          [cond |-> Cond(None, None),
                           vars |-> Some([category |-> Some(Var("desc"))])]>>),
                   Some(Cond(None, Some(Equals("rent")))),
            <<AddTxn(Some(Lit("rent.bean")),
                     Template(Some(Var("category")), None, None))>>),
        \* an id that renders to the omit token
        ImportRule(Simple(Cond(None, Some(Equals("coffee")))), None,
            <<AddTxn(Some(Lit("coffee.bean")),
                     Template(Some(Var("omit")), None, None))>>),
        \* ids that render to the empty string: a variable nothing defines,
        \* and an empty template
        ImportRule(Simple(Cond(None, Some(Equals("rent")))), None,
            <<DelTxn(Some([id |-> Some(Var("memo"))])),
              AddTxn(Some(Lit("rent.bean")), Template(Some(Lit("")), None, None))>>)}

Records ==
    {[file |-> Some("mock.csv"), lineno |-> 1, date |-> Some("2024-05-05"),
      desc |-> desc, bank_desc |-> Some("BANK")] :
        desc \in {None, Some("coffee"), Some("rent")}}

InputConfigs ==
    {None} \cup
    {Some([default_file |-> default_file, prepend_postings |-> prepend_postings,
           appending_postings |-> appending_postings,
           append_postings |-> append_postings, default_txn |-> default_txn]) :
        default_file \in {None, Some(Lit("out.bean"))},
        prepend_postings \in {None, Some(<<Posting("Assets:Bank")>>)},
        appending_postings \in {None, Some(<<Posting("Expenses:Old")>>)},
        append_postings \in {None, Some(<<Posting("Expenses:New")>>)},
        default_txn \in {None,
                         Some(Template(None, None, None)),
                         Some(Template(Some(Lit("default-id")), None,
                                       Some(<<Posting("Expenses:Default")>>)))}}

\* The calls of process_transaction: a record, the rules in their order, the
\* details of the input, the id template of the extractor and the variables
\* of the input.
Calls ==
    [import_rules      : SeqsUpTo(ImportRules, MaxRules),
     txn               : Records,
     input_config      : InputConfigs,
     default_import_id : {None, Some(Lit("extractor-id"))},
     input_vars        : {None, Some([category |-> Some(Str("input"))])}]

InitProcess ==
    /\ pc = "input"
    /\ call \in Calls
    /\ outcome = None
    /\ IdleCompute
    /\ change_sets = <<>>
    /\ IdleApply
    /\ IdleRun

\* One call of process_transaction, run to its end.
ProcessTransaction ==
    /\ pc = "input"
    /\ outcome' = Some(process_transaction(call.import_rules, call.txn,
                                           call.input_config, call.default_import_id,
                                           call.input_vars))
    /\ pc' = "processed"
    /\ UNCHANGED <<call, compute_vars, apply_vars, run_vars>>

NextProcess == ProcessTransaction

SpecProcess == InitProcess /\ [][NextProcess]_vars

----------------------------------------------------------------------------
(* processor.py: expand_input_loops                                         *)

\* The render_str of expand_input_loops: the values of the loop entry are
\* laid over the omit token, and the rendering is returned as it is.
loop_ctx(values) == values @@ [omit |-> Some(OMIT_TOKEN)]

render_input_config_match(match, template_ctx) ==
    [kind |-> match.kind, pattern |-> render(match.pattern, template_ctx)]

\* config.extractor after the rendering: None when it is the omit token or
\* empty.
rendered_extractor(extractor, template_ctx) ==
    LET rendering == render(extractor, template_ctx)
    IN  IF rendering = OMIT_TOKEN \/ rendering = <<>> THEN None ELSE Some(rendering)

\* The copy of the config with the extractor rendered.
rendered_config(config, template_ctx) ==
    IF IsNone(config.extractor) THEN config
    ELSE [config EXCEPT !.extractor = rendered_extractor(Val(config.extractor),
                                                         template_ctx)]

\* The body of `for values in input_config.loop`; `config.extractor` is read
\* from the config of the input, which is None when the input has none.
loop_entry_raises(input_config) == IsNone(input_config.config)

loop_entry(input_config, values) ==
    [input_config |->
        [match  |-> render_input_config_match(input_config.match, loop_ctx(values)),
         config |-> Some(rendered_config(Val(input_config.config), loop_ctx(values)))],
     filter |-> None,
     values |-> Some(values)]

\* What one input yields, and whether it raises.
expand_input(input_config) ==
    IF IsNone(input_config.loop)
    THEN [yielded |-> <<[input_config |-> [match  |-> input_config.match,
                                           config |-> input_config.config],
                         filter |-> None,
                         values |-> None]>>,
          raised |-> FALSE]
    ELSE IF Val(input_config.loop) = <<>> \/ loop_entry_raises(input_config)
    THEN [yielded |-> <<>>, raised |-> TRUE]
    ELSE [yielded |-> [k \in DOMAIN Val(input_config.loop) |->
                          loop_entry(input_config, Val(input_config.loop)[k])],
          raised |-> FALSE]

\* `for input_config in inputs` over the first n inputs.
RECURSIVE expand_inputs(_, _)
expand_inputs(inputs, n) ==
    IF n = 0 THEN [yielded |-> <<>>, raised |-> FALSE]
    ELSE LET sofar == expand_inputs(inputs, n - 1)
             this == expand_input(inputs[n])
         IN  IF sofar.raised THEN sofar
             ELSE [yielded |-> sofar.yielded \o this.yielded, raised |-> this.raised]

expand_input_loops(inputs) == expand_inputs(inputs, Len(inputs))

----------------------------------------------------------------------------
(* The inputs of a configuration expanded (SpecLoops)                       *)

MaxInputs == 2

Glob(template) == [kind |-> "glob", pattern |-> template]
ExactFile(template) == [kind |-> "equals", pattern |-> template]
RegexFile(template) == [kind |-> "regex", pattern |-> template]

\* The entries of a loop: the second one binds no extractor.
LoopValues ==
    <<[name |-> Some(Str("chase.csv")), extractor |-> Some(Str("chase"))],
      [name |-> Some(Str("amex.csv"))]>>

Details(extractor) == [extractor |-> extractor, default_file |-> Some(Var("name"))]

InputConfig(match, config, loop) ==
    [match |-> match, config |-> config, filter |-> None, loop |-> loop]

Inputs ==
    {InputConfig(Glob(Lit("data/*.csv")), Some(Details(None)), None),
     InputConfig(RegexFile(Lit("other/.+")), Some(Details(Some(Lit("plaid")))), None),
     InputConfig(Glob(Lit("rest/*.csv")), None, None),
     InputConfig(Glob(Var("name")), Some(Details(Some(Var("extractor")))),
                 Some(LoopValues)),
     InputConfig(ExactFile(Var("name")), Some(Details(Some(Var("omit")))),
                 Some(SubSeq(LoopValues, 1, 1))),
     InputConfig(Glob(Var("name")), Some(Details(Some(TextThenOmit("csv")))),
                 Some(LoopValues)),
     InputConfig(Glob(Var("name")), Some(Details(None)), Some(<<>>)),
     InputConfig(Glob(Var("name")), None, Some(SubSeq(LoopValues, 1, 1)))}

InitLoops ==
    /\ pc = "input"
    /\ call \in [inputs : SeqsUpTo(Inputs, MaxInputs)]
    /\ outcome = None
    /\ IdleCompute
    /\ change_sets = <<>>
    /\ IdleApply
    /\ IdleRun

\* list(expand_input_loops(...)), run to its end.
ExpandInputLoops ==
    /\ pc = "input"
    /\ outcome' = Some(expand_input_loops(call.inputs))
    /\ pc' = "expanded"
    /\ UNCHANGED <<call, compute_vars, apply_vars, run_vars>>

NextLoops == ExpandInputLoops

SpecLoops == InitLoops /\ [][NextLoops]_vars

-----------------------------------------------------------------------------
(* A record matched against rule maps (SpecMatch)                           *)

MaxSubRules == 2

Regex(expression) == [kind |-> "regex", regex |-> expression]
Prefix(s) == [kind |-> "prefix", prefix |-> s]
Suffix(s) == [kind |-> "suffix", suffix |-> s]
Contains(s) == [kind |-> "contains", contains |-> s]
OneOfWith(items, regex, ignore_case) ==
    [kind |-> "one_of", one_of |-> items, regex |-> regex,
     ignore_case |-> ignore_case]

\* DateBeforeMatch, DateAfterMatch, DateSameDayMatch, DateSameMonthMatch and
\* DateSameYearMatch: the bound as text and the format to parse it with.
DatePatternKinds ==
    {"date_before", "date_after", "date_same_day", "date_same_month",
     "date_same_year"}

DatePattern(kind, bound, format) == [kind |-> kind, bound |-> bound, format |-> format]

\* datetime.date values and their isoformat text.
Date(year, month, day) == [year |-> year, month |-> month, day |-> day]

year_text(year) == IF year = 2023 THEN "2023" ELSE "2024"
two_digits(n) == IF n = 1 THEN "01" ELSE IF n = 5 THEN "05" ELSE "08"

isoformat(d) ==
    <<year_text(d.year), "-", two_digits(d.month), "-", two_digits(d.day)>>

Dates == {Date(2023, 8, 5), Date(2024, 5, 1), Date(2024, 5, 5), Date(2024, 8, 5)}

Letters == {"a", "A", "b"}

MatchRecords ==
    {[date |-> date, desc |-> desc] :
        date \in {None} \cup {Some(d) : d \in Dates},
        desc \in {None} \cup {Some(text) : text \in SeqsUpTo(Letters, 2)}}

StrPatterns ==
    {Regex(<<>>), Regex(<<"a">>), Regex(<<"a", "$">>), Regex(<<".", "b">>),
     Equals(<<"a">>), Equals(<<>>), Prefix(<<"a">>), Prefix(<<>>),
     Suffix(<<"b">>), Contains(<<"b">>), Contains(<<>>)}
    \cup {OneOfWith(<<<<"a">>, <<"a", "b">>>>, regex, ignore_case) :
            regex \in BOOLEAN, ignore_case \in BOOLEAN}

PatternsOnDates ==
    {Regex(<<"2024">>), Equals(isoformat(Date(2024, 5, 5))), Prefix(<<"2024">>),
     Suffix(<<"05">>), Contains(<<"-">>),
     OneOfWith(<<isoformat(Date(2024, 5, 5))>>, FALSE, FALSE),
     OneOfWith(<<<<"2024">>>>, TRUE, FALSE)}
    \cup {DatePattern(kind, isoformat(Date(2024, 5, 5)), "%Y-%m-%d") :
            kind \in DatePatternKinds}

RuleMaps ==
    {[date |-> date, desc |-> desc] :
        date \in {None} \cup {Some(pattern) : pattern \in PatternsOnDates},
        desc \in {None} \cup {Some(pattern) : pattern \in StrPatterns}}

TxnMatchVars(cond) == [cond |-> cond, vars |-> None]

SubRules ==
    {TxnMatchVars([date |-> None, desc |-> Some(Prefix(<<"a">>))]),
     TxnMatchVars([date |-> None, desc |-> Some(Suffix(<<"b">>))]),
     TxnMatchVars([date |-> None, desc |-> Some(Regex(<<>>))]),
     TxnMatchVars([date |-> Some(Equals(isoformat(Date(2024, 5, 5)))), desc |-> None]),
     TxnMatchVars([date |-> Some(Prefix(<<"2024">>)), desc |-> None]),
     TxnMatchVars([date |-> None, desc |-> None])}

CommonConds ==
    {None,
     Some([date |-> None, desc |-> Some(Contains(<<"b">>))]),
     Some([date |-> None, desc |-> Some(Prefix(<<"a">>))]),
     Some([date |-> Some(Prefix(<<"2024">>)), desc |-> None])}

MatchCalls ==
    {[form |-> "simple", txn |-> txn, rule |-> rule] :
        txn \in MatchRecords, rule \in RuleMaps}
    \cup
    {[form |-> "list", txn |-> txn, rules |-> rules,
      common_condition |-> common_condition] :
        txn \in MatchRecords, rules \in SeqsUpTo(SubRules, MaxSubRules),
        common_condition \in CommonConds}

InitMatch ==
    /\ pc = "input"
    /\ call \in MatchCalls
    /\ outcome = None
    /\ IdleCompute
    /\ change_sets = <<>>
    /\ IdleApply
    /\ IdleRun

\* match_transaction(txn, rule)
MatchTransaction ==
    /\ pc = "input"
    /\ call.form = "simple"
    /\ outcome' =
        Some(IF match_transaction_raises(call.txn, call.rule)
             THEN [raised |-> TRUE, returned |-> FALSE]
             ELSE [raised |-> FALSE,
                   returned |-> match_transaction(call.txn, call.rule)])
    /\ pc' = "matched"
    /\ UNCHANGED <<call, compute_vars, apply_vars, run_vars>>

\* match_transaction_with_vars(txn, rules, common_condition)
MatchTransactionWithVars ==
    /\ pc = "input"
    /\ call.form = "list"
    /\ outcome' =
        Some(IF match_transaction_with_vars_raises(call.txn, call.rules,
                                                   call.common_condition)
             THEN [raised |-> TRUE, returned |-> None]
             ELSE [raised |-> FALSE,
                   returned |-> match_transaction_with_vars(
                                    call.txn, call.rules, call.common_condition)])
    /\ pc' = "matched"
    /\ UNCHANGED <<call, compute_vars, apply_vars, run_vars>>

NextMatch == MatchTransaction \/ MatchTransactionWithVars

SpecMatch == InitMatch /\ [][NextMatch]_vars

-----------------------------------------------------------------------------
(* processor.py: filter_transaction and the records of a file               *)

\* The str values of the model in the order of Python's string comparison.
StrOrder == <<"BANK", "coffee", "mock.csv", "rent">>
str_rank(value) == CHOOSE i \in DOMAIN StrOrder : StrOrder[i] = value

\* int(text)
int(text) == CHOOSE n \in DOMAIN Digits : Digits[n] = text

\* parse_date(text): dates are named by their ISO text.
parse_date(text) == DateOrder[date_rank(text)]

\* getattr(txn, operation.field) and the type isinstance finds for it.
filter_lhs(txn, field) == IF field = "lineno" THEN Some(txn.lineno) ELSE txn[field]

filter_type(field) ==
    CASE field = "date" -> "date"
      [] field = "lineno" -> "int"
      [] OTHER -> "str"

\* rhs: the value of the operation coerced to the type of the field.
filter_rhs(type, text) ==
    CASE type = "date" -> parse_date(text)
      [] type = "int" -> int(text)
      [] type = "str" -> text

\* The place of a value in the order of its type.
order_key(type, value) ==
    CASE type = "date" -> date_rank(value)
      [] type = "int" -> value
      [] type = "str" -> str_rank(value)

FILTER_OPERATOR_MAP(op, lhs, rhs) ==
    CASE op = "==" -> lhs = rhs
      [] op = "!=" -> lhs # rhs
      [] op = ">" -> lhs > rhs
      [] op = ">=" -> lhs >= rhs
      [] op = "<" -> lhs < rhs
      [] op = "<=" -> lhs <= rhs

\* The final else of filter_transaction: a None is of none of the types.
filter_transaction_raises(operation, txn) ==
    IsNone(filter_lhs(txn, operation.field))

filter_transaction(operation, txn) ==
    LET type == filter_type(operation.field)
        lhs == Val(filter_lhs(txn, operation.field))
        rhs == filter_rhs(type, operation.value)
    IN  FILTER_OPERATOR_MAP(operation.op, order_key(type, lhs), order_key(type, rhs))

\* The loop over the filter of the input from its k-th operation on: "keep",
\* "skip" after the break, or "raise".
RECURSIVE keep_transaction(_, _, _)
keep_transaction(operations, k, txn) ==
    IF k > Len(operations) THEN "keep"
    ELSE IF filter_transaction_raises(operations[k], txn) THEN "raise"
    ELSE IF ~ filter_transaction(operations[k], txn) THEN "skip"
    ELSE keep_transaction(operations, k + 1, txn)

\* What process_imports yields for a record: the outputs of
\* process_transaction and then the UnprocessedTransaction it returns.
record_outputs(done) ==
    done.yielded \o (IF IsNone(done.returned) THEN <<>> ELSE <<Val(done.returned)>>)

\* One round of `for transaction in extractor()`: `kept` is the outcome of the
\* filter, `done` that of process_transaction, `rest` that of the records
\* after this one.
process_record(txn, kept, done, rest) ==
    CASE kept = "raise" -> [passed |-> <<>>, yielded |-> <<>>, raised |-> TRUE]
      [] kept = "skip" -> rest
      [] kept = "keep" ->
            IF done.raised
            THEN [passed |-> <<txn>>, yielded |-> record_outputs(done), raised |-> TRUE]
            ELSE [passed |-> <<txn>> \o rest.passed,
                  yielded |-> record_outputs(done) \o rest.yielded,
                  raised |-> rest.raised]

\* `for transaction in extractor()` from the k-th record on: the records
\* handed to process_transaction, what is yielded, and whether it raises.
RECURSIVE process_records(_, _, _, _, _)
process_records(txns, k, operations, input_config, import_rules) ==
    IF k > Len(txns)
    THEN [passed |-> <<>>, yielded |-> <<>>, raised |-> FALSE]
    ELSE process_record(
            txns[k],
            IF IsNone(operations) THEN "keep"
            ELSE keep_transaction(Val(operations), 1, txns[k]),
            process_transaction(import_rules, txns[k], input_config, None, None),
            process_records(txns, k + 1, operations, input_config, import_rules))

-----------------------------------------------------------------------------
(* The records of a file under the filter of its input (SpecFilter)         *)

MaxRecords == 2

FilterFieldOperation(field, op, value) == [field |-> field, op |-> op, value |-> value]

\* The evaluated filter of the input: None, or the list of its operations.
Filters ==
    {None, Some(<<>>),
     Some(<<FilterFieldOperation("date", ">=", "2024-08-01")>>),
     Some(<<FilterFieldOperation("date", "<", "2024-08-29")>>),
     Some(<<FilterFieldOperation("lineno", ">", "1")>>),
     Some(<<FilterFieldOperation("desc", "==", "coffee")>>),
     Some(<<FilterFieldOperation("desc", "!=", "coffee"),
            FilterFieldOperation("lineno", "<=", "1")>>),
     Some(<<FilterFieldOperation("lineno", "<=", "1"),
            FilterFieldOperation("date", ">=", "2024-08-01")>>),
     Some(<<FilterFieldOperation("bank_desc", "<", "coffee"),
            FilterFieldOperation("desc", ">", "coffee")>>)}

FilterRecords ==
    {[file |-> Some("mock.csv"), lineno |-> lineno, date |-> date,
      desc |-> desc, bank_desc |-> Some("BANK")] :
        lineno \in {1, 2},
        date \in {None, Some("2024-05-05"), Some("2024-08-01")},
        desc \in {None, Some("coffee"), Some("rent")}}

\* coffee is added, rent is deleted and ignored, and any other record is
\* left unprocessed.
FilterImportRules ==
    <<ImportRule(Simple(Cond(None, Some(Equals("coffee")))), None,
          <<AddTxn(Some(Lit("coffee.bean")),
                   Template(Some(Lit("coffee-id")), None,
                            Some(<<Posting("Expenses:Coffee")>>)))>>),
      ImportRule(Simple(Cond(None, Some(Equals("rent")))), None,
          <<DelTxn(None), Ignore>>)>>

FilterInputConfig ==
    Some([default_file |-> Some(Lit("out.bean")), prepend_postings |-> None,
          appending_postings |-> None, append_postings |-> None,
          default_txn |-> None])

InitFilter ==
    /\ pc = "input"
    /\ call \in [txns : SeqsUpTo(FilterRecords, MaxRecords), filter : Filters]
    /\ outcome = None
    /\ IdleCompute
    /\ change_sets = <<>>
    /\ IdleApply
    /\ IdleRun

\* The records of one file of process_imports, run to the end.
ProcessRecords ==
    /\ pc = "input"
    /\ outcome' = Some(process_records(call.txns, 1, call.filter, FilterInputConfig,
                                       FilterImportRules))
    /\ pc' = "filtered"
    /\ UNCHANGED <<call, compute_vars, apply_vars, run_vars>>

NextFilter == ProcessRecords

SpecFilter == InitFilter /\ [][NextFilter]_vars

-----------------------------------------------------------------------------
(* includes.py: resolve_includes and load_includes (SpecIncludes)           *)

\* The depth of nested calls the interpreter allows before RecursionError.
MaxDepth == 3

IncludeFiles == {"a.yaml", "b.yaml"}

\* The items of a rule list: an ImportRule, or an IncludeRule with its paths.
Rule(name) == [type |-> "rule", name |-> name, include |-> <<>>]
IncludeRule(paths) == [type |-> "include", name |-> "", include |-> paths]

RuleItems ==
    {Rule("r1"), Rule("r2"), IncludeRule(<<"a.yaml">>), IncludeRule(<<"b.yaml">>),
     IncludeRule(<<"a.yaml", "b.yaml">>)}

RuleLists == SeqsUpTo(RuleItems, 2)

\* A call of resolve_includes in progress: the list it walks, the rule and
\* the path of the rule it is at, and its `imports`.
Frame(file, rules) ==
    [file |-> file, rules |-> rules, rule |-> 1, path |-> 1, imports |-> <<>>]

\* The caller goes on after load_includes has returned `includes`.
resumed(frame, includes) ==
    LET paths == frame.rules[frame.rule].include
        extended == frame.imports \o includes
    IN  IF frame.path < Len(paths)
        THEN [frame EXCEPT !.path = @ + 1, !.imports = extended]
        ELSE [frame EXCEPT !.rule = @ + 1, !.path = 1, !.imports = extended]

InitIncludes ==
    /\ pc = "loading"
    /\ call \in [rules : RuleLists, files : [IncludeFiles -> RuleLists]]
    /\ outcome = Some([stack |-> <<Frame("", call.rules)>>, returned |-> None])
    /\ IdleCompute
    /\ change_sets = <<>>
    /\ IdleApply
    /\ IdleRun

TopFrame == Val(outcome).stack[Len(Val(outcome).stack)]

AtRule ==
    /\ pc = "loading"
    /\ TopFrame.rule <= Len(TopFrame.rules)

\* imports.append(rule)
AppendRule ==
    /\ AtRule
    /\ TopFrame.rules[TopFrame.rule].type = "rule"
    /\ outcome' =
        Some([Val(outcome) EXCEPT
                !.stack[Len(Val(outcome).stack)] =
                    [@ EXCEPT !.rule = @ + 1,
                              !.imports = Append(@, TopFrame.rules[TopFrame.rule])]])
    /\ UNCHANGED <<pc, call, compute_vars, apply_vars, run_vars>>

\* load_includes(workdir_path, include_path): the file is read and
\* resolve_includes is entered with its rules.
LoadIncludes ==
    /\ AtRule
    /\ TopFrame.rules[TopFrame.rule].type = "include"
    /\ Len(Val(outcome).stack) < MaxDepth
    /\ LET include_path == TopFrame.rules[TopFrame.rule].include[TopFrame.path]
       IN  outcome' =
            Some([Val(outcome) EXCEPT
                    !.stack = Append(@, Frame(include_path, call.files[include_path]))])
    /\ UNCHANGED <<pc, call, compute_vars, apply_vars, run_vars>>

\* The nested calls reach the depth the interpreter allows: RecursionError.
RecursionFails ==
    /\ AtRule
    /\ TopFrame.rules[TopFrame.rule].type = "include"
    /\ Len(Val(outcome).stack) = MaxDepth
    /\ pc' = "failed"
    /\ UNCHANGED <<outcome, call, compute_vars, apply_vars, run_vars>>

\* return imports
ReturnImports ==
    /\ pc = "loading"
    /\ TopFrame.rule > Len(TopFrame.rules)
    /\ LET stack == Val(outcome).stack
           depth == Len(stack)
       IN  IF depth = 1
           THEN /\ outcome' = Some([stack |-> <<>>, returned |-> Some(TopFrame.imports)])
                /\ pc' = "loaded"
           ELSE /\ outcome' =
                    Some([Val(outcome) EXCEPT
                            !.stack = Append(SubSeq(stack, 1, depth - 2),
                                             resumed(stack[depth - 1], TopFrame.imports))])
                /\ pc' = pc
    /\ UNCHANGED <<call, compute_vars, apply_vars, run_vars>>

NextIncludes == AppendRule \/ LoadIncludes \/ RecursionFails \/ ReturnImports

SpecIncludes == InitIncludes /\ [][NextIncludes]_vars

----------------------------------------------------------------------------
(* processor.py: process_imports over the files of the input directory      *)
(* (SpecImports)                                                            *)

ALL_EXTRACTORS == {"mercury", "plaid"}

\* A path is the list of the pieces of its name; a glob piece "*" takes any
\* piece.
match_file(pattern, filepath) ==
    IF pattern.kind = "glob"
    THEN /\ Len(pattern.pattern) = Len(filepath)
         /\ \A i \in DOMAIN filepath :
               pattern.pattern[i] = "*" \/ pattern.pattern[i] = filepath[i]
    ELSE filepath = pattern.pattern

\* The rounds of the loop over the input configurations for one file, from
\* the n-th on: the configuration the file is read under, if any, and the
\* warnings logged on the way.
RECURSIVE select_input(_, _, _, _)
select_input(inputs, n, filepath, detected) ==
    IF n > Len(inputs) THEN [kind |-> "none", warnings |-> <<>>]
    ELSE IF ~ match_file(inputs[n].match, filepath)
         THEN select_input(inputs, n + 1, filepath, detected)
    ELSE IF IsNone(inputs[n].extractor)
         THEN IF detected THEN [kind |-> "process", input |-> n, warnings |-> <<>>]
              ELSE [kind |-> "raise", warnings |-> <<>>]
    ELSE IF Val(inputs[n].extractor) \notin ALL_EXTRACTORS
         THEN LET rest == select_input(inputs, n + 1, filepath, detected)
              IN  [rest EXCEPT !.warnings =
                      <<[file |-> filepath, input |-> n]>> \o @]
    ELSE [kind |-> "process", input |-> n, warnings |-> <<>>]

\* The files walk_dir_files yields, and the lines of their records.
InputPaths == <<<<"a", ".csv">>, <<"b", ".csv">>>>
records_of(filepath) == IF filepath[1] = "a" THEN <<1, 2>> ELSE <<2>>

\* The records of the file handed to process_transaction under the input
\* configuration.
processed_records(filepath, n) ==
    [i \in DOMAIN records_of(filepath) |->
        [file |-> filepath, lineno |-> records_of(filepath)[i], input |-> n]]

FileMatches ==
    {[kind |-> "glob", pattern |-> <<"*", ".csv">>],
     [kind |-> "equals", pattern |-> <<"a", ".csv">>],
     [kind |-> "equals", pattern |-> <<"b", ".csv">>]}

ExpandedInputs ==
    [match : FileMatches, extractor : {None, Some("mercury"), Some("nothere")}]

InitImports ==
    /\ pc = "walking"
    /\ call \in [inputs : SeqsUpTo(ExpandedInputs, MaxInputs),
                  detected : [Range(InputPaths) -> BOOLEAN]]
    /\ outcome = Some([k |-> 1, processed |-> <<>>, warnings |-> <<>>])
    /\ IdleCompute
    /\ change_sets = <<>>
    /\ IdleApply
    /\ IdleRun

\* The file the walk is at, and what the inner loop does with it.
FileAt == InputPaths[Val(outcome).k]
SelectedAt == select_input(call.inputs, 1, FileAt, call.detected[FileAt])

AfterFile(selected, processed) ==
    Some([k |-> Val(outcome).k + 1,
          processed |-> Val(outcome).processed \o processed,
          warnings |-> Val(outcome).warnings \o selected.warnings])

\* One round of the loop over the files: the file is read under an input
\* configuration and its records are processed.
ProcessFile ==
    /\ pc = "walking"
    /\ SelectedAt.kind = "process"
    /\ outcome' = AfterFile(SelectedAt, processed_records(FileAt, SelectedAt.input))
    /\ pc' = IF Val(outcome).k = Len(InputPaths) THEN "done" ELSE "walking"
    /\ UNCHANGED <<call, compute_vars, apply_vars, run_vars>>

\* One round of the loop over the files: no input configuration reads the file.
SkipFile ==
    /\ pc = "walking"
    /\ SelectedAt.kind = "none"
    /\ outcome' = AfterFile(SelectedAt, <<>>)
    /\ pc' = IF Val(outcome).k = Len(InputPaths) THEN "done" ELSE "walking"
    /\ UNCHANGED <<call, compute_vars, apply_vars, run_vars>>

\* `raise ValueError("Extractor not specified ... cannot be automatically detected")`
DetectFails ==
    /\ pc = "walking"
    /\ SelectedAt.kind = "raise"
    /\ pc' = "failed"
    /\ UNCHANGED <<process_vars, compute_vars, apply_vars, run_vars>>

NextImports == ProcessFile \/ SkipFile \/ DetectFails

SpecImports == InitImports /\ [][NextImports]_vars

----------------------------------------------------------------------------
(* post_processor.py: extract_existing_transactions over the statements of  *)
(* the files of a ledger (SpecScan)                                         *)

MaxStatements == 4

\* A transaction seen by a scanner.
BeancountTransaction(file, lineno, id, override) ==
    [file |-> file, lineno |-> lineno, id |-> id, override |-> override]

\* beanhub_import: the transaction to yield at a transaction directive and
\* at the end of the file.
pending(st, bean_path) ==
    IF ~ IsNone(st.last_txn) /\ ~ IsNone(st.import_id)
    THEN <<BeancountTransaction(bean_path, Val(st.last_txn), Val(st.import_id),
                                st.import_override)>>
    ELSE <<>>

\* beanhub_import: one round of the loop over the statements of a file.  The
\* line of a statement is its place in the file.
scan_statement(st, statement, line, bean_path) ==
    IF statement.kind = "date_directive"
    THEN IF statement.type # "txn" THEN st
         ELSE [last_txn |-> Some(line), import_id |-> None, import_override |-> None,
               yielded |-> st.yielded \o pending(st, bean_path)]
    ELSE IF statement.kind = "metadata_item" /\ statement.type = "ESCAPED_STRING"
    THEN IF statement.key = IMPORT_ID_KEY
         THEN [st EXCEPT !.import_id = Some(json_loads(statement.value))]
         ELSE IF statement.key = IMPORT_OVERRIDE_KEY
         THEN [st EXCEPT !.import_override =
                            parse_override_flags(json_loads(statement.value))]
         ELSE st
    ELSE st

RECURSIVE scan_statements(_, _, _)
scan_statements(statements, n, bean_path) ==
    IF n = 0
    THEN [last_txn |-> None, import_id |-> None, import_override |-> None,
          yielded |-> <<>>]
    ELSE scan_statement(scan_statements(statements, n - 1, bean_path),
                        statements[n], n, bean_path)

\* beanhub_import: what the scanner yields for one file.
scan_file(statements, bean_path) ==
    LET st == scan_statements(statements, Len(statements), bean_path)
    IN  st.yielded \o pending(st, bean_path)

\* beanhub_import: extract_existing_transactions over the files in the order
\* of the traversal.
RECURSIVE scan_files(_, _)
scan_files(files, k) ==
    IF k = 0 THEN <<>>
    ELSE scan_files(files, k - 1) \o scan_file(files[k], LedgerFiles[k])

\* beancount_importer_rules: one round of the loop over the statements.  The
\* test for a transaction directive never holds (the name of a rule is a
\* string), so every dated directive becomes last_txn; an import-id item is
\* yielded where it stands, and `last_txn.meta.line` raises without a
\* directive before it.
scan_statement_fork(st, statement, line, bean_path) ==
    IF st.raised THEN st
    ELSE IF statement.kind = "date_directive"
    THEN [st EXCEPT !.last_txn = Some(line)]
    ELSE IF /\ statement.kind = "metadata_item"
            /\ statement.key = IMPORT_ID_KEY
            /\ statement.type = "ESCAPED_STRING"
    THEN IF IsNone(st.last_txn) THEN [st EXCEPT !.raised = TRUE]
         ELSE [st EXCEPT !.yielded =
                  @ \o <<BeancountTransaction(bean_path, Val(st.last_txn),
                                              json_loads(statement.value), None)>>]
    ELSE st

RECURSIVE scan_statements_fork(_, _, _, _)
scan_statements_fork(st, statements, n, bean_path) ==
    IF n = 0 THEN st
    ELSE scan_statement_fork(scan_statements_fork(st, statements, n - 1, bean_path),
                             statements[n], n, bean_path)

\* beancount_importer_rules: extract_existing_transactions; last_txn is set
\* once before the loop over the files.
RECURSIVE scan_files_fork(_, _)
scan_files_fork(files, k) ==
    IF k = 0 THEN [last_txn |-> None, yielded |-> <<>>, raised |-> FALSE]
    ELSE scan_statements_fork(scan_files_fork(files, k - 1), files[k],
                              Len(files[k]), LedgerFiles[k])

\* The statements of a ledger file.
TxnDirective == [kind |-> "date_directive", type |-> "txn"]
OpenDirective == [kind |-> "date_directive", type |-> "open"]
MetadataStatement(key, type, value) ==
    [kind |-> "metadata_item", key |-> key, type |-> type, value |-> value]
Statements ==
    {TxnDirective, OpenDirective,
     MetadataStatement(IMPORT_ID_KEY, "ESCAPED_STRING", json_dumps("id0")),
     MetadataStatement(IMPORT_ID_KEY, "NUMBER", [json |-> "7"]),
     MetadataStatement(IMPORT_OVERRIDE_KEY, "ESCAPED_STRING",
                       json_dumps(<<"narration">>))}

InitScan ==
    /\ pc = "input"
    /\ call \in {c \in [files : [DOMAIN LedgerFiles ->
                                    SeqsUpTo(Statements, MaxStatements)]] :
                    Len(c.files[1]) + Len(c.files[2]) <= MaxStatements}
    /\ outcome = None
    /\ IdleCompute
    /\ change_sets = <<>>
    /\ IdleApply
    /\ IdleRun

\* beanhub_import: list(extract_existing_transactions(...))
ExtractExisting ==
    /\ pc = "input"
    /\ outcome' = Some([yielded |-> scan_files(call.files, Len(LedgerFiles)),
                        raised |-> FALSE])
    /\ pc' = "scanned"
    /\ UNCHANGED <<call, compute_vars, apply_vars, run_vars>>

\* beancount_importer_rules: list(extract_existing_transactions(...))
ExtractExistingFork ==
    /\ pc = "input"
    /\ outcome' =
          LET st == scan_files_fork(call.files, Len(LedgerFiles))
          IN  Some([yielded |-> st.yielded, raised |-> st.raised])
    /\ pc' = "scanned_fork"
    /\ UNCHANGED <<call, compute_vars, apply_vars, run_vars>>

NextScan == ExtractExisting \/ ExtractExistingFork

SpecScan == InitScan /\ [][NextScan]_vars

----------------------------------------------------------------------------
(* engine.py: calls of ImportRuleEngine.process_transaction in one process  *)
(* (SpecEngine)                                                             *)

MaxCalls == 2
MaxYielded == 2

Engines == {"engine1", "engine2"}

\* What process_imports yields in a call.
Yielded(type, id) == [type |-> type, id |-> id]
YieldedLists ==
    SeqsUpTo({Yielded("generated", "id0"), Yielded("deleted", "id0"),
              Yielded("unprocessed", "id1")}, MaxYielded)

\* IProcessedTransactionsMap: its three lists are attributes of the class,
\* made once when the class is defined; IProcessedTransactionsMap() makes no
\* list of its own.
IProcessedTransactionsMap ==
    [generated_txns |-> <<>>, deleted_txns |-> <<>>, unprocessed_txns |-> <<>>]

\* The loop of process_transaction over the yielded transactions: each one
\* is appended to the list of its type.
RECURSIVE collect(_, _, _)
collect(output, transactions, n) ==
    IF n = 0 THEN output
    ELSE LET sofar == collect(output, transactions, n - 1)
             txn == transactions[n]
         IN  IF txn.type = "generated"
             THEN [sofar EXCEPT !.generated_txns = Append(@, txn)]
             ELSE IF txn.type = "deleted"
             THEN [sofar EXCEPT !.deleted_txns = Append(@, txn)]
             ELSE [sofar EXCEPT !.unprocessed_txns = Append(@, txn)]

\* The process starts: the class is defined, no call was made.
InitEngine ==
    /\ pc = "idle"
    /\ call = None
    /\ outcome = Some([lists |-> IProcessedTransactionsMap, calls |-> 0,
                       returned |-> None])
    /\ IdleCompute
    /\ change_sets = <<>>
    /\ IdleApply
    /\ IdleRun

\* One call of process_transaction on an engine: `output` reads the lists
\* of the class, the call appends to them and returns them.
EngineProcessTransaction ==
    /\ Val(outcome).calls < MaxCalls
    /\ \E engine \in Engines, transactions \in YieldedLists :
          /\ call' = Some([engine |-> engine, transactions |-> transactions])
          /\ outcome' =
                LET output == collect(Val(outcome).lists, transactions,
                                      Len(transactions))
                IN  Some([lists |-> output, calls |-> Val(outcome).calls + 1,
                          returned |-> Some(output)])
    /\ pc' = "returned"
    /\ UNCHANGED <<compute_vars, apply_vars, run_vars>>

NextEngine == EngineProcessTransaction

SpecEngine == InitEngine /\ [][NextEngine]_vars

----------------------------------------------------------------------------
(* Properties of compute_changes (SpecCompute)                              *)

Computed == pc = "computed"

\* The generated transactions that some change set adds or uses as an update.
AddedIn(f) == Range(change_sets[f].add)
UpdatingIn(f) == {change_sets[f].update[l].txn : l \in DOMAIN change_sets[f].update}

\* The number of items of txns with the given id.
CountId(txns, id) == Cardinality({i \in DOMAIN txns : txns[i].id = id})

\* C5 - Dangling stability: an existing transaction whose override flag set
\* is present is in the dangling list of no change set, also when no
\* generated transaction has its id.
C5_DanglingStability ==
    Computed =>
        \A i \in DOMAIN imported_txns :
            ~ IsNone(imported_txns[i].override) =>
                \A f \in DOMAIN change_sets :
                    imported_txns[i] \notin Range(change_sets[f].dangling)

\* An existing transaction with override flags and without a generated or
\* deleted counterpart has been through compute_changes, next to a dangling one.
C5_Witness ==
    /\ Computed
    /\ \E i \in DOMAIN imported_txns :
          /\ ~ IsNone(imported_txns[i].override)
          /\ ~ has_id(generated_txns, imported_txns[i].id)
          /\ ~ has_id(deleted_txns, imported_txns[i].id)
    /\ \E f \in DOMAIN change_sets : change_sets[f].dangling # <<>>

\* C6 - Delete wins: no generated transaction with a deleted id is in an add
\* list or an update map, and every existing transaction with a deleted id
\* is in the remove list of its file.
C6_DeleteWins ==
    Computed =>
        \A id \in deleted_txn_ids(deleted_txns) :
            /\ \A f \in DOMAIN change_sets :
                  \A t \in AddedIn(f) \cup UpdatingIn(f) : t.id # id
            /\ \A i \in DOMAIN imported_txns :
                  imported_txns[i].id = id =>
                      /\ imported_txns[i].file \in DOMAIN change_sets
                      /\ imported_txns[i] \in
                            Range(change_sets[imported_txns[i].file].remove)

\* A deleted id that has a generated and an existing transaction.
C6_Witness ==
    /\ Computed
    /\ \E id \in deleted_txn_ids(deleted_txns) :
          has_id(generated_txns, id) /\ has_id(imported_txns, id)

\* The generated transaction g moves the existing transaction e to another file.
Moves(g, e) ==
    /\ g.id = e.id
    /\ g.id \notin deleted_txn_ids(deleted_txns)
    /\ resolve(e.file) # resolve(join(work_dir, g.file))

\* What C7 expects of a move: a remove on the old file, an add on the new
\* file and no update for the id.
MovedAsClaimed(g, e) ==
    /\ e.file \in DOMAIN change_sets
    /\ e \in Range(change_sets[e.file].remove)
    /\ resolve(join(work_dir, g.file)) \in DOMAIN change_sets
    /\ g \in AddedIn(resolve(join(work_dir, g.file)))
    /\ \A f \in DOMAIN change_sets : \A t \in UpdatingIn(f) : t.id # g.id

\* C7 as claimed: whenever a generated transaction (id not deleted) has the
\* id of an existing transaction but resolves to a different file, the
\* existing one is removed on the old file, the generated one is added on
\* the new file and the id has no update.
C7_FileMove_Claimed ==
    Computed =>
        \A i \in DOMAIN generated_txns : \A j \in DOMAIN imported_txns :
            Moves(generated_txns[i], imported_txns[j]) =>
                MovedAsClaimed(generated_txns[i], imported_txns[j])

\* C7 as amended: the same, for a generated transaction that is the only
\* generated one of its id and whose file holds no existing transaction of
\* that id.
C7_FileMove ==
    Computed =>
        \A i \in DOMAIN generated_txns : \A j \in DOMAIN imported_txns :
            LET g == generated_txns[i]
                e == imported_txns[j]
            IN  /\ Moves(g, e)
                /\ CountId(generated_txns, g.id) = 1
                /\ \A k \in DOMAIN imported_txns :
                      imported_txns[k].id = g.id =>
                          resolve(imported_txns[k].file) #
                              resolve(join(work_dir, g.file))
                => MovedAsClaimed(g, e)

\* A move has been computed: the generated file, written with "..", and the
\* existing file differ as written in one case and as resolved in the other.
C7_Witness ==
    /\ Computed
    /\ \E i \in DOMAIN generated_txns : \E j \in DOMAIN imported_txns :
          /\ Moves(generated_txns[i], imported_txns[j])
          /\ CountId(generated_txns, generated_txns[i].id) = 1
          /\ CountId(imported_txns, generated_txns[i].id) = 1
    /\ \E i \in DOMAIN generated_txns : \E j \in DOMAIN imported_txns :
          /\ generated_txns[i].id = imported_txns[j].id
          /\ imported_txns[j].file # join(work_dir, generated_txns[i].file)
          /\ ~ Moves(generated_txns[i], imported_txns[j])

\* The line numbers of the remove list of a change set.
RemovedLines(f) == {change_sets[f].remove[i].lineno : i \in DOMAIN change_sets[f].remove}

\* C8 as claimed: in every change set, for any inputs, no line number is
\* both the lineno of a transaction in remove and a key of update.
C8_RemoveUpdateDisjoint_Claimed ==
    Computed =>
        \A f \in DOMAIN change_sets :
            RemovedLines(f) \cap DOMAIN change_sets[f].update = {}

\* C8 as amended: the same when no two generated transactions share an id.
C8_RemoveUpdateDisjoint ==
    Computed /\ (\A id \in Ids : CountId(generated_txns, id) <= 1) =>
        \A f \in DOMAIN change_sets :
            RemovedLines(f) \cap DOMAIN change_sets[f].update = {}

\* A change set with a remove and an update, from generated transactions of
\* distinct ids.
C8_Witness ==
    /\ Computed
    /\ \A id \in Ids : CountId(generated_txns, id) <= 1
    /\ \E f \in DOMAIN change_sets :
          change_sets[f].remove # <<>> /\ DOMAIN change_sets[f].update # {}

\* The places of the change sets that hold the generated transaction: an
\* item of an add list, or the value of an update on a line.
PlacesOf(g) ==
    UNION {{<<f, "add", k>> : k \in {m \in DOMAIN change_sets[f].add :
                                        change_sets[f].add[m] = g}}
           \cup {<<f, "update", l>> : l \in {m \in DOMAIN change_sets[f].update :
                                                change_sets[f].update[m].txn = g}} :
           f \in DOMAIN change_sets}

\* C29: when the generated ids are distinct, every generated transaction
\* whose id is not deleted is in exactly one place of the change sets, an
\* add or the value of an update, and that place is in the change set of its
\* own resolved file.
C29_NothingLost ==
    (Computed /\ \A id \in Ids : CountId(generated_txns, id) <= 1) =>
        \A i \in DOMAIN generated_txns :
            generated_txns[i].id \notin deleted_txn_ids(deleted_txns) =>
                /\ Cardinality(PlacesOf(generated_txns[i])) = 1
                /\ \A p \in PlacesOf(generated_txns[i]) :
                      p[1] = resolve(join(work_dir, generated_txns[i].file))

\* Two generated transactions of distinct ids, one added and one an update.
C29_Witness ==
    /\ Computed
    /\ Len(generated_txns) = 2
    /\ generated_txns[1].id # generated_txns[2].id
    /\ \E f \in DOMAIN change_sets : change_sets[f].add # <<>>
    /\ \E f \in DOMAIN change_sets : DOMAIN change_sets[f].update # {}

----------------------------------------------------------------------------
(* Properties of update_transaction and apply_change_set (SpecUpdate)       *)

Applied == pc = "applied"

TheEntry == tree.entries[2]
TheUpdate == change_set.update[TheEntry.statement.line]

\* The list of tags or of links of a statement; an absent list has no item.
ListOf(optional) == IF IsNone(optional) THEN <<>> ELSE Val(optional)

\* An attribute of the header of an entry.
Attribute(entry, name) ==
    LET txn_statement == extract_txn_statement(entry.statement)
    IN  CASE name = "date" -> txn_statement.date
          [] name = "flag" -> txn_statement.flag
          [] name = "payee" -> txn_statement.payee
          [] name = "narration" -> txn_statement.narration
          [] name = "hashtags" -> ListOf(txn_statement.hashtags)
          [] name = "links" -> ListOf(txn_statement.links)

\* The same attribute of a generated transaction, its tags and links in order.
GeneratedAttribute(txn, name) ==
    CASE name = "date" -> txn.date
      [] name = "flag" -> txn.flag
      [] name = "payee" -> txn.payee
      [] name = "narration" -> txn.narration
      [] name = "hashtags" ->
            sorted([i \in DOMAIN ListOf(txn.tags) |-> <<"#", ListOf(txn.tags)[i]>>])
      [] name = "links" ->
            sorted([i \in DOMAIN ListOf(txn.links) |-> <<"^", ListOf(txn.links)[i]>>])

GeneratedPostings(txn) == [i \in DOMAIN txn.postings |-> posting_to_text(txn.postings[i])]

\* C3 - Override discipline: under an override with neither NONE nor ALL the
\* produced entry has the generated transaction's value of every attribute
\* whose flag is set and the existing entry's value of every other attribute
\* (the metadata has no flag), and its statement keeps the existing line.
C3_OverrideDiscipline ==
    Applied /\ ~ IsNone(TheUpdate.override)
            /\ Val(TheUpdate.override) \cap {"none", "all"} = {} =>
        /\ \A name \in HeaderFlags :
              Attribute(actual_entry, name) =
                  IF name \in Val(TheUpdate.override)
                  THEN GeneratedAttribute(TheUpdate.txn, name)
                  ELSE Attribute(TheEntry, name)
        /\ actual_entry.postings =
              IF "postings" \in Val(TheUpdate.override)
              THEN GeneratedPostings(TheUpdate.txn)
              ELSE TheEntry.postings
        /\ actual_entry.metadata = TheEntry.metadata
        /\ actual_entry.statement.line = TheEntry.statement.line

\* An update under {payee, links}: the existing entry has a payee and tags
\* written out of order, the generated transaction has no payee.
C3_Witness ==
    /\ Applied
    /\ TheUpdate.override = Some({"payee", "links"})
    /\ IsNone(TheUpdate.txn.payee)
    /\ ~ IsNone(TheEntry.statement.payee)
    /\ TheEntry.statement.annotations =
          Some(<<annotation("#", "Hash2"), annotation("#", "Hash1")>>)
    /\ ~ IsNone(TheUpdate.txn.links)

\* The entry is the generated transaction in every attribute.
FullyReplaced(entry, txn) ==
    /\ \A name \in HeaderFlags :
          Attribute(entry, name) = GeneratedAttribute(txn, name)
    /\ entry.postings = GeneratedPostings(txn)
    /\ entry.metadata =
          <<[name |-> IMPORT_ID_KEY, value |-> json_dumps(txn.id)],
            [name |-> IMPORT_SRC_KEY, value |-> json_dumps(Val(txn.sources))]>>

\* C4 - The applier outputs, for an entry matched by a TransactionUpdate (an
\* entry that reaches the look-up in line_to_updates), the entry fully
\* replaced by the generated transaction when the override is unset or
\* contains ALL, and the existing entry when it contains NONE.
C4_FullReplaceOrNoChange ==
    Applied =>
        /\ Len(new_tree.entries) = 2
        /\ new_tree.entries[1] = tree.entries[1]
        /\ IsNone(TheUpdate.override) \/ "all" \in Val(TheUpdate.override) =>
              /\ FullyReplaced(new_tree.entries[2], TheUpdate.txn)
              /\ new_tree.entries[2].statement.line = TheEntry.statement.line
        /\ ~ IsNone(TheUpdate.override) /\ "none" \in Val(TheUpdate.override) =>
              new_tree.entries[2] = TheEntry

\* An entry marked with the override NONE went through the applier, its
\* generated transaction differing in payee, tags and links.
C4_Witness ==
    /\ Applied
    /\ TheUpdate.override = Some({"none"})
    /\ ~ IsNone(TheUpdate.txn.payee)
    /\ ~ IsNone(TheUpdate.txn.tags)
    /\ ~ IsNone(TheEntry.statement.annotations)
    /\ new_tree.entries[2] = TheEntry

\* The entry of the ledger without its import-override metadata item.
WithoutOverride(entry) ==
    [entry EXCEPT !.metadata =
        SelectSeq(@, LAMBDA item : item.name # IMPORT_OVERRIDE_KEY)]

\* C17: parse_override_flags gives null or a set of known flags in which NONE
\* or ALL stands alone; an unknown or empty token, or NONE or ALL next to
\* another flag, makes the whole value null, and the file is then updated
\* exactly as for the entry without the import-override item.
C17_ParseOverrideFlags ==
    has_metadata(TheEntry, IMPORT_OVERRIDE_KEY) =>
        LET parts == metadata_value(TheEntry, IMPORT_OVERRIDE_KEY)
            flags == Range(parts)
            parsed == TheUpdate.override
            alone == \A flag \in {"none", "all"} : flag \in flags => flags = {flag}
        IN  /\ ~ IsNone(parsed) =>
                /\ Val(parsed) \subseteq OverrideFlags
                /\ \A flag \in {"none", "all"} :
                      flag \in Val(parsed) => Val(parsed) = {flag}
            /\ parsed = IF flags \subseteq OverrideFlags /\ alone
                        THEN Some(flags) ELSE None
            /\ (Applied /\ IsNone(parsed)) =>
                /\ actual_entry =
                      update_transaction(WithoutOverride(TheEntry), TheUpdate,
                                         TheEntry.statement.line)
                /\ new_tree =
                      apply_change_set(
                          [tree EXCEPT !.entries[2] = WithoutOverride(@)],
                          change_set, remove_dangling)

\* An entry whose import-override has a known flag and an empty token went
\* through the applier and was replaced as a whole.
C17_Witness ==
    /\ Applied
    /\ has_metadata(TheEntry, IMPORT_OVERRIDE_KEY)
    /\ metadata_value(TheEntry, IMPORT_OVERRIDE_KEY) = <<"payee", "">>
    /\ IsNone(TheUpdate.override)
    /\ ~ IsNone(TheEntry.statement.payee)
    /\ ~ IsNone(TheUpdate.txn.payee)
    /\ FullyReplaced(new_tree.entries[2], TheUpdate.txn)

----------------------------------------------------------------------------
(* Properties of a run (Spec)                                               *)

SecondComputed == run = "second" /\ pc = "computed"

DistinctGeneratedIds ==
    \A i, j \in DOMAIN generated_txns :
        generated_txns[i].id = generated_txns[j].id => i = j

\* C1 as stated: after a first run was applied, the change sets of a second
\* run over the same records and rules contain no adds, no updates and no
\* removes.
C1_Idempotence_Claimed ==
    SecondComputed =>
        \A f \in DOMAIN change_sets :
            /\ change_sets[f].add = <<>>
            /\ DOMAIN change_sets[f].update = {}
            /\ change_sets[f].remove = <<>>

\* C1, amended: when the ids of the generated transactions are pairwise
\* distinct, the change sets of the second run contain no adds and no
\* removes; their updates are the generated transactions whose id is not
\* deleted, each in the file it resolves to.
C1_Idempotence ==
    SecondComputed /\ DistinctGeneratedIds =>
        /\ \A f \in DOMAIN change_sets :
            /\ change_sets[f].add = <<>>
            /\ change_sets[f].remove = <<>>
        /\ \A i \in DOMAIN generated_txns :
            generated_txns[i].id \notin deleted_txn_ids(deleted_txns) =>
                LET f == resolve(join(work_dir, generated_txns[i].file))
                IN  f \in DOMAIN change_sets /\ generated_txns[i] \in UpdatingIn(f)
        /\ \A f \in DOMAIN change_sets : \A txn \in UpdatingIn(f) :
            \E i \in DOMAIN generated_txns :
                /\ generated_txns[i] = txn
                /\ resolve(join(work_dir, txn.file)) = f
                /\ txn.id \notin deleted_txn_ids(deleted_txns)

\* The change sets of a second run over two generated transactions of
\* distinct ids in two files, both files present in the ledger by then.
C1_Witness ==
    /\ SecondComputed
    /\ DistinctGeneratedIds
    /\ Len(generated_txns) = MaxGenerated
    /\ \E i, j \in DOMAIN generated_txns : generated_txns[i].file # generated_txns[j].file
    /\ \E f \in DOMAIN change_sets : DOMAIN change_sets[f].update # {}
    /\ \A f \in Range(LedgerFiles) : ~ IsNone(ledger[f])
----------------------------------------------------------------------------
(* Properties of process_transaction (SpecProcess)                          *)

Processed == pc = "processed" /\ ~ IsNone(outcome)

MatchingRules == {k \in DOMAIN call.import_rules : rule_matches(call.txn, call.import_rules[k])}

\* The first matching rule alone, or no rule when none matches.
FirstMatchingRule ==
    IF MatchingRules = {} THEN <<>> ELSE <<call.import_rules[Min(MatchingRules)]>>

\* C2: what process_transaction yields, returns or raises over a list of
\* rules is what it yields, returns or raises over the first matching rule
\* alone; this holds too when that rule has no action.
C2_RuleOrder ==
    Processed =>
        Val(outcome) = process_transaction(FirstMatchingRule, call.txn, call.input_config,
                                          call.default_import_id, call.input_vars)

\* A record two rules match: the first has no action, the second has some,
\* and the record comes back unprocessed.
C2_Witness ==
    /\ Processed
    /\ Cardinality(MatchingRules) = MaxRules
    /\ call.import_rules[Min(MatchingRules)].actions = <<>>
    /\ \E k \in MatchingRules : call.import_rules[k].actions # <<>>
    /\ ~ IsNone(Val(outcome).returned)

\* The context the matched rule renders with.
MatchedCtx ==
    template_ctx_of(call.txn, call.input_vars,
        IF MatchingRules = {} THEN None
        ELSE matched_vars_of(call.txn, call.import_rules[Min(MatchingRules)]))

DefaultTxn == details(call.input_config).default_txn

HasId(template) == ~ IsNone(template) /\ ~ IsNone(Val(template).id)

\* The template the id of an output comes from, by the priority of the claim.
IdTemplate(template) ==
    IF HasId(template) THEN Val(template).id
    ELSE IF HasId(DefaultTxn) THEN Val(DefaultTxn).id
    ELSE IF ~ IsNone(call.default_import_id) THEN call.default_import_id
    ELSE DEFAULT_TXN_TEMPLATE.id

\* C9 as stated: the postings of a generated transaction are the rendered
\* prepend_postings, then those of the action or else of default_txn, then
\* append_postings or else, when it is not set, appending_postings.
C9_PostingComposition_Claimed ==
    Processed =>
        \A i \in DOMAIN Val(outcome).yielded :
            Val(outcome).yielded[i].type = "generated" =>
                LET c == details(call.input_config)
                    action == call.import_rules[Min(MatchingRules)].actions[i]
                    head == IF IsNone(c.prepend_postings) THEN <<>>
                            ELSE Val(c.prepend_postings)
                    middle == IF ~ IsNone(Val(action.txn).postings)
                              THEN Val(Val(action.txn).postings)
                              ELSE IF IsNone(DefaultTxn) THEN <<>>
                              ELSE IF IsNone(Val(DefaultTxn).postings) THEN <<>>
                              ELSE Val(Val(DefaultTxn).postings)
                    tail == IF ~ IsNone(c.append_postings) THEN Val(c.append_postings)
                            ELSE IF ~ IsNone(c.appending_postings)
                                 THEN Val(c.appending_postings)
                                 ELSE <<>>
                IN  Val(outcome).yielded[i].postings =
                        generate_postings(head \o middle \o tail, MatchedCtx)

\* C10: the id of the i-th output is the rendering of the id template of the
\* i-th action of the matched rule if it has one, else of default_txn if it
\* has one, else of the extractor's default if there is one, else of the
\* built-in default; the id of an unprocessed record is found the same way
\* without the action.
C10_ImportIdPriority ==
    Processed =>
        /\ \A i \in DOMAIN Val(outcome).yielded :
            Val(outcome).yielded[i].id =
                render_str(IdTemplate(call.import_rules[Min(MatchingRules)].actions[i].txn),
                           MatchedCtx)
        /\ ~ IsNone(Val(outcome).returned) =>
            Val(Val(outcome).returned).import_id = render_str(IdTemplate(None), MatchedCtx)

\* A generated transaction whose action sets no id while default_txn and the
\* extractor both set one, after a deletion under the id of its action.
C10_Witness ==
    /\ Processed
    /\ HasId(DefaultTxn)
    /\ ~ IsNone(call.default_import_id)
    /\ \E i \in DOMAIN Val(outcome).yielded :
        /\ Val(outcome).yielded[i].type = "generated"
        /\ ~ HasId(call.import_rules[Min(MatchingRules)].actions[i].txn)
    /\ \E i \in DOMAIN Val(outcome).yielded :
        /\ Val(outcome).yielded[i].type = "deleted"
        /\ HasId(call.import_rules[Min(MatchingRules)].actions[i].txn)

\* C11 as stated: every GeneratedTransaction and DeletedTransaction that
\* process_transaction yields has an id that is neither null nor the empty
\* string.
C11_NonEmptyId_Claimed ==
    Processed =>
        \A i \in DOMAIN Val(outcome).yielded :
            /\ ~ IsNone(Val(outcome).yielded[i].id)
            /\ Val(Val(outcome).yielded[i].id) # <<>>

----------------------------------------------------------------------------
(* Properties of a run: the files written (Spec)                            *)

Escaping ==
    {i \in DOMAIN generated_txns :
        ~ is_relative_to(resolve(join(work_dir, generated_txns[i].file)), work_dir)}

\* C12: no file outside the working directory is created or rewritten; when
\* the file of a generated transaction resolves outside the working
\* directory the run fails before any change set is computed and before any
\* file is written, so that the generated transactions compute_changes
\* receives all resolve inside the working directory.
C12_PathEscape ==
    /\ \A f \in DOMAIN ledger : ~ is_relative_to(f, work_dir) => IsNone(ledger[f])
    /\ Escaping # {} =>
        /\ pc \in {"start", "failed"}
        /\ run = "first"
        /\ change_sets = <<>>
        /\ ledger \in InitialLedgers

\* A failed run: one generated transaction resolves outside the working
\* directory, another one to a file of the ledger that does not exist yet,
\* and neither file has been created.
C12_Witness ==
    /\ pc = "failed"
    /\ Escaping # {}
    /\ \E i \in DOMAIN generated_txns :
        /\ i \notin Escaping
        /\ IsNone(ledger[resolve(join(work_dir, generated_txns[i].file))])
    /\ \A f \in DOMAIN ledger : ~ is_relative_to(f, work_dir) => IsNone(ledger[f])

----------------------------------------------------------------------------
(* Properties of process_transaction: the omit token (SpecProcess)          *)

\* The generated transactions of the outcome with the actions they come from.
GeneratedAt ==
    {i \in DOMAIN Val(outcome).yielded : Val(outcome).yielded[i].type = "generated"}

ActionAt(i) == call.import_rules[Min(MatchingRules)].actions[i]

\* What a template renders to before the omit token is looked for.
Rendering(template) == render(template, MatchedCtx)

Templates(list) == IF IsNone(list) THEN <<>> ELSE Val(list)
Items(list) == IF IsNone(list) THEN {} ELSE Range(Val(list))

\* The payee template of an action: its own, else that of default_txn.
PayeeTemplate(action) ==
    IF ~ IsNone(Val(action.txn).payee) THEN Val(action.txn).payee
    ELSE IF ~ IsNone(DefaultTxn) THEN Val(DefaultTxn).payee
    ELSE None

\* C13 for the outputs of process_transaction: a payee, tag, link or
\* metadata name or value whose template renders to exactly the omit token
\* is absent from the generated transaction, and one whose rendering holds
\* the token within other text is kept as that text.
OmitLawOfTransactions ==
    Processed =>
        \A i \in GeneratedAt :
            LET generated == Val(outcome).yielded[i]
                template == Val(ActionAt(i).txn)
                payee == PayeeTemplate(ActionAt(i))
            IN  /\ IsNone(payee) => IsNone(generated.payee)
                /\ ~ IsNone(payee) =>
                    IF Rendering(Val(payee)) = OMIT_TOKEN
                    THEN IsNone(generated.payee)
                    ELSE generated.payee = Some(Rendering(Val(payee)))
                /\ \A key \in {"tags", "links"} :
                    \A t \in Range(Templates(template[key])) :
                        IF Rendering(t) = OMIT_TOKEN
                        THEN OMIT_TOKEN \notin Items(generated[key])
                        ELSE Rendering(t) # <<>> => Rendering(t) \in Items(generated[key])
                /\ \A m \in Range(Templates(template.metadata)) :
                    IF Rendering(m.name) = OMIT_TOKEN \/ Rendering(m.value) = OMIT_TOKEN
                    THEN \A item \in Items(generated.metadata) :
                            item.name # OMIT_TOKEN /\ item.value # OMIT_TOKEN
                    ELSE Rendering(m.name) # <<>> /\ Rendering(m.value) # <<>> =>
                            [name |-> Rendering(m.name), value |-> Rendering(m.value)]
                                \in Items(generated.metadata)

\* C13 for the extractor of a looped input: an extractor template that
\* renders to exactly the omit token under a loop entry leaves the extractor
\* unspecified, and one whose rendering holds the token within other text is
\* kept as that text.
OmitLawOfExtractor ==
    \A t \in {Var("omit"), Var("extractor"), TextThenOmit("csv"), Lit("plaid")} :
        \A k \in DOMAIN LoopValues :
            LET template_ctx == loop_ctx(LoopValues[k])
                config == rendered_config(Details(Some(t)), template_ctx)
            IN  IF render(t, template_ctx) = OMIT_TOKEN
                THEN IsNone(config.extractor)
                ELSE render(t, template_ctx) # <<>> =>
                        config.extractor = Some(render(t, template_ctx))

\* C13: a template of an optional field (payee, tag, link, metadata name or
\* value, extractor of a looped input) that renders to exactly the omit
\* token leaves the field absent; a rendering that holds the token within
\* other text is kept as a string.
C13_OmitLaw == OmitLawOfTransactions /\ OmitLawOfExtractor

\* A generated transaction whose payee template is `{{ omit }}` and that has
\* no payee, while the tag and the metadata value that hold the token after
\* other text are kept and the tag, link and metadata items that render to
\* the token alone are gone.
C13_Witness ==
    /\ Processed
    /\ \E i \in GeneratedAt :
        LET generated == Val(outcome).yielded[i]
            template == Val(ActionAt(i).txn)
        IN  /\ template.payee = Some(Var("omit"))
            /\ IsNone(generated.payee)
            /\ Var("omit") \in Items(template.tags)
            /\ generated.tags = Some(<<Str("Imported"), Str("Kept") \o OMIT_TOKEN>>)
            /\ generated.links = Some(<<Str("receipt") \o OMIT_TOKEN>>)
            /\ generated.metadata =
                Some(<<[name |-> Str("note"), value |-> Str("see ") \o OMIT_TOKEN]>>)

----------------------------------------------------------------------------
(* Properties of expand_input_loops (SpecLoops)                             *)

Expanded == pc = "expanded" /\ ~ IsNone(outcome)

\* The rendered input configurations of one input as the claim gives them.
ExpectedOf(input_config) ==
    IF IsNone(input_config.loop)
    THEN <<[input_config |-> [match  |-> input_config.match,
                              config |-> input_config.config],
            filter |-> None, values |-> None]>>
    ELSE [k \in DOMAIN Val(input_config.loop) |->
            LET values == Val(input_config.loop)[k]
                template_ctx == values @@ [omit |-> Some(OMIT_TOKEN)]
                rendering == render(Val(Val(input_config.config).extractor), template_ctx)
            IN  [input_config |->
                    [match  |-> [kind |-> input_config.match.kind,
                                 pattern |-> render(input_config.match.pattern,
                                                    template_ctx)],
                     config |->
                        IF IsNone(input_config.config) THEN None
                        ELSE IF IsNone(Val(input_config.config).extractor)
                        THEN input_config.config
                        ELSE Some([Val(input_config.config) EXCEPT !.extractor =
                                     IF rendering \in {OMIT_TOKEN, <<>>} THEN None
                                     ELSE Some(rendering)])],
                 filter |-> None,
                 values |-> Some(values)]]

RECURSIVE ExpectedExpansion(_, _)
ExpectedExpansion(inputs, n) ==
    IF n = 0 THEN <<>>
    ELSE ExpectedExpansion(inputs, n - 1) \o ExpectedOf(inputs[n])

HasEmptyLoop(inputs) == \E i \in DOMAIN inputs : inputs[i].loop = Some(<<>>)

\* C18 as stated: expand_input_loops raises when an input has an empty
\* loop; otherwise it yields, in the order of the inputs, one rendered input
\* configuration for an input without a loop and one per loop entry for an
\* input with a loop, with the match and the extractor rendered under the
\* entry and the entry carried as values.
C18_ExpandInputLoops_Claimed ==
    Expanded =>
        IF HasEmptyLoop(call.inputs) THEN Val(outcome).raised
        ELSE /\ ~ Val(outcome).raised
             /\ Val(outcome).yielded = ExpectedExpansion(call.inputs, Len(call.inputs))
-----------------------------------------------------------------------------
(* Properties of the matching of rule maps (SpecMatch)                      *)

Matched == pc = "matched" /\ ~ IsNone(outcome)

\* The field passes its pattern: the evaluation returns True.
Passes(pattern, value) ==
    ~ match_str_raises(pattern, value) /\ match_str(pattern, value)

MapMatches(txn, rule) ==
    \A key \in DOMAIN rule :
        ~ IsNone(rule[key])
            => ~ IsNone(txn[key]) /\ Passes(Val(rule[key]), field_value(txn, key))

\* The sub-rules whose cond and the common condition both match.
Selectable(txn, rules, common_condition) ==
    {i \in DOMAIN rules :
        /\ MapMatches(txn, rules[i].cond)
        /\ IsNone(common_condition) \/ MapMatches(txn, Val(common_condition))}

strptime(text, format) ==
    CHOOSE d \in {Date(year, month, day) :
                    year \in {2023, 2024}, month \in {1, 5, 8}, day \in {1, 5, 8}} :
        isoformat(d) = text

date_before(a, b) ==
    \/ a.year < b.year
    \/ a.year = b.year /\ a.month < b.month
    \/ a.year = b.year /\ a.month = b.month /\ a.day < b.day

DatePatternHolds(pattern, value) ==
    LET bound == strptime(pattern.bound, pattern.format)
    IN  CASE pattern.kind = "date_before" -> date_before(value, bound)
          [] pattern.kind = "date_after" -> date_before(bound, value)
          [] pattern.kind = "date_same_day" -> value.day = bound.day
          [] pattern.kind = "date_same_month" -> value.month = bound.month
          [] pattern.kind = "date_same_year" -> value.year = bound.year

\* A call with a date pattern on the date field, alone in its rule map.
OnDatePattern ==
    /\ Matched
    /\ call.form = "simple"
    /\ ~ IsNone(call.rule.date)
    /\ Val(call.rule.date).kind \in DatePatternKinds
    /\ IsNone(call.rule.desc)
    /\ ~ IsNone(call.txn.date)

\* C15: a date_before (date_after) pattern matches iff the value is strictly
\* before (after) the bound, date_same_day/month/year match iff the
\* respective components are equal, and the evaluation returns a boolean
\* rather than raising.
C15_DatePatterns_Claimed ==
    OnDatePattern =>
        /\ ~ Val(outcome).raised
        /\ Val(outcome).returned
              = DatePatternHolds(Val(call.rule.date), Val(call.txn.date))

\* A call with a string pattern on the date field, alone in its rule map.
OnStrPatternOfDate ==
    /\ Matched
    /\ call.form = "simple"
    /\ ~ IsNone(call.rule.date)
    /\ Val(call.rule.date).kind \in StrPatternKinds
    /\ IsNone(call.rule.desc)
    /\ ~ IsNone(call.txn.date)

\* C16: a string pattern applied to a field holding a date is evaluated on
\* the string form of the date and returns a boolean; it never raises
\* because of the value's type.
C16_StrPatternOfDate_Claimed ==
    OnStrPatternOfDate =>
        /\ ~ Val(outcome).raised
        /\ Val(outcome).returned
              = match_str(Val(call.rule.date),
                          Some([type |-> "str",
                                value |-> isoformat(Val(call.txn.date))]))

\* A record no rule has matched came back as an UnprocessedTransaction.
Unprocessed ==
    /\ Processed
    /\ ~ Val(outcome).raised
    /\ ~ IsNone(Val(outcome).returned)

\* The rendering of a list of posting templates of the input, None for a
\* list the input does not have.
RenderedPostings(templates) ==
    IF IsNone(templates) THEN None
    ELSE Some(generate_postings(Val(templates),
                                template_ctx_of(call.txn, call.input_vars, None)))

\* C20: the UnprocessedTransaction of an unmatched record carries the record,
\* the rendered default_file, the rendering of the prepend_postings of the
\* input as prepending_postings and the rendering of its append postings as
\* appending_postings.
C20_UnprocessedTransaction_Claimed ==
    Unprocessed =>
        LET c == details(call.input_config)
            unprocessed == Val(Val(outcome).returned)
        IN  /\ unprocessed.txn = call.txn
            /\ unprocessed.output_file
                  = render_str(c.default_file,
                               template_ctx_of(call.txn, call.input_vars, None))
            /\ unprocessed.prepending_postings = RenderedPostings(c.prepend_postings)
            /\ unprocessed.appending_postings = RenderedPostings(c.append_postings)

-----------------------------------------------------------------------------
(* Properties of the filter of an input (SpecFilter)                        *)

Filtered == pc = "filtered" /\ ~ IsNone(outcome)

\* The predicate holds for the record: the field compares with the value as
\* the operator says.
PredicateHolds(operation, txn) ==
    /\ ~ IsNone(filter_lhs(txn, operation.field))
    /\ LET type == filter_type(operation.field)
           lhs == order_key(type, Val(filter_lhs(txn, operation.field)))
           rhs == order_key(type, filter_rhs(type, operation.value))
       IN  CASE operation.op = "==" -> lhs = rhs
             [] operation.op = "!=" -> lhs # rhs
             [] operation.op = "<" -> lhs < rhs
             [] operation.op = "<=" -> lhs <= rhs
             [] operation.op = ">" -> rhs < lhs
             [] operation.op = ">=" -> rhs <= lhs

PassesFilter(txn) ==
    IsNone(call.filter)
        \/ \A i \in DOMAIN Val(call.filter) : PredicateHolds(Val(call.filter)[i], txn)

\* What the records that pass the filter give, record by record.
RECURSIVE OutputsOf(_)
OutputsOf(txns) ==
    IF txns = <<>> THEN <<>>
    ELSE LET done == process_transaction(FilterImportRules, Head(txns),
                                         FilterInputConfig, None, None)
         IN  done.yielded
             \o (IF IsNone(done.returned) THEN <<>> ELSE <<Val(done.returned)>>)
             \o OutputsOf(Tail(txns))

\* C19: a record is passed on to rule processing iff every predicate of the
\* evaluated filter holds for it, and a record failing a predicate gives no
\* output: the records processed are those that pass, and the outputs are
\* theirs.
C19_Filter_Claimed ==
    Filtered =>
        LET passing == SelectSeq(call.txns, PassesFilter)
        IN  /\ Val(outcome).passed = passing
            /\ Val(outcome).yielded = OutputsOf(passing)

-----------------------------------------------------------------------------
(* Properties of the loading of rules (SpecIncludes)                        *)

\* The files a list of rules includes directly.
IncludedBy(rules) ==
    UNION {Range(rules[i].include) : i \in DOMAIN rules}

\* The files reached from the files of S by following includes n times.
RECURSIVE ReachedFrom(_, _)
ReachedFrom(S, n) ==
    IF n = 0 THEN S
    ELSE ReachedFrom(S \cup UNION {IncludedBy(call.files[f]) : f \in S}, n - 1)

\* The file includes itself, directly or through other files.
IncludesItself(f) ==
    f \in ReachedFrom(IncludedBy(call.files[f]), Cardinality(IncludeFiles))

Acyclic ==
    \A f \in ReachedFrom(IncludedBy(call.rules), Cardinality(IncludeFiles)) :
        ~ IncludesItself(f)

\* The rules of a list with every include replaced by the rules of its
\* files, n includes deep.
RECURSIVE Flat(_, _)
RECURSIVE FlatFiles(_, _)
Flat(rules, n) ==
    IF rules = <<>> THEN <<>>
    ELSE (IF Head(rules).type = "rule" THEN <<Head(rules)>>
          ELSE IF n = 0 THEN <<>>
          ELSE FlatFiles(Head(rules).include, n - 1))
         \o Flat(Tail(rules), n)

FlatFiles(paths, n) ==
    IF paths = <<>> THEN <<>>
    ELSE Flat(call.files[Head(paths)], n) \o FlatFiles(Tail(paths), n)

\* C21: rule loading gives the flat list of rules when the includes are
\* acyclic, and a file that includes itself is detected rather than followed:
\* the loading never fails on acyclic includes, and no file is entered while
\* it is being loaded.
C21_IncludeLoading_Claimed ==
    /\ Acyclic => pc # "failed"
    /\ (Acyclic /\ pc = "loaded") =>
          Val(outcome).returned = Some(Flat(call.rules, Cardinality(IncludeFiles)))
    /\ \A i, j \in DOMAIN Val(outcome).stack :
          i < j => Val(outcome).stack[i].file # Val(outcome).stack[j].file

----------------------------------------------------------------------------
(* The accounting of a record by process_transaction (SpecProcess)          *)

\* The loop over the rules was left at an ignore action.
ReachedIgnore ==
    run_rules(call.import_rules, 1, None, call.txn, details(call.input_config),
              call.default_import_id, call.input_vars).left = "return"

\* The first action of the first matching rule is ignore.
IgnoredFirst ==
    /\ FirstMatchingRule # <<>>
    /\ FirstMatchingRule[1].actions # <<>>
    /\ FirstMatchingRule[1].actions[1].type = "ignore"

\* C28: process_transaction returns an UnprocessedTransaction exactly when
\* it emitted no output and did not reach an ignore action; it never both
\* emits and returns one; a record whose matching rule begins with ignore
\* yields no output and no UnprocessedTransaction.
C28_RecordAccounting_Claimed ==
    Processed =>
        /\ ~ IsNone(Val(outcome).returned)
              <=> (Val(outcome).yielded = <<>> /\ ~ ReachedIgnore)
        /\ ~ (Val(outcome).yielded # <<>> /\ ~ IsNone(Val(outcome).returned))
        /\ IgnoredFirst =>
              Val(outcome).yielded = <<>> /\ IsNone(Val(outcome).returned)

----------------------------------------------------------------------------
(* Properties of SpecReserved                                               *)

\* The generated transaction has a metadata item with a reserved name.
HasReservedMetadata(txn) == txn_to_text_raises(txn)

\* An entry of some ledger file is the text of the transaction.
WrittenToLedger(txn) ==
    \E f \in DOMAIN ledger :
        /\ ~ IsNone(ledger[f])
        /\ \E n \in DOMAIN Val(ledger[f]).entries :
              Val(ledger[f]).entries[n].metadata = txn_to_text(txn).metadata

\* C22: whenever a generated transaction has a metadata item named import-id
\* or import-src, the run fails (none of its runs completes) and the
\* transaction is never written to a ledger file, whether it is added,
\* updated under any override, or shares its id with a deleted transaction.
C22_ReservedMetadata_Claimed ==
    \A i \in DOMAIN generated_txns :
        HasReservedMetadata(generated_txns[i])
            => /\ run = "first"
               /\ ~ WrittenToLedger(generated_txns[i])

----------------------------------------------------------------------------
(* Properties of SpecImports                                                *)

\* C23: a file matched by an input configuration whose extractor cannot be
\* found is skipped with a warning: no record of the file is processed.
C23_MissingExtractor_Claimed ==
    \A w \in DOMAIN Val(outcome).warnings :
        \A r \in DOMAIN Val(outcome).processed :
            Val(outcome).processed[r].file # Val(outcome).warnings[w].file

----------------------------------------------------------------------------
(* Properties of SpecScan                                                   *)

\* The statements of the file that belong to the transaction directive at
\* `line`: those up to the next transaction directive or the end of the file.
StatementsOf(statements, line) ==
    LET later == {m \in DOMAIN statements : m > line /\ statements[m] = TxnDirective}
        last == IF later = {} THEN Len(statements) ELSE Min(later) - 1
    IN  SubSeq(statements, line + 1, last)

StringValues(statements, key) ==
    {json_loads(statements[m].value) :
        m \in {m \in DOMAIN statements :
                 /\ statements[m].kind = "metadata_item"
                 /\ statements[m].key = key
                 /\ statements[m].type = "ESCAPED_STRING"}}

\* The lines of the transaction directives of the file that have a
\* string-valued import-id, in their order.
ImportedLines(statements) ==
    SelectSeq([m \in DOMAIN statements |-> m],
              LAMBDA m : /\ statements[m] = TxnDirective
                         /\ StringValues(StatementsOf(statements, m),
                                         IMPORT_ID_KEY) # {})

\* The transaction is the one the claim describes for the directive.
EmittedFor(txn, statements, bean_path, line) ==
    /\ txn.file = bean_path
    /\ txn.lineno = line
    /\ txn.id \in StringValues(StatementsOf(statements, line), IMPORT_ID_KEY)
    /\ LET values == StringValues(StatementsOf(statements, line),
                                  IMPORT_OVERRIDE_KEY)
       IN  IF values = {} THEN IsNone(txn.override)
           ELSE \E v \in values : txn.override = parse_override_flags(v)

\* The places of the list of all emitted transactions where the file's begin.
OffsetOf(k) == IF k = 1 THEN 0 ELSE Len(ImportedLines(call.files[1]))

\* C24: the scanner emits exactly one transaction for each transaction
\* directive with a string-valued import-id before the next transaction
\* directive or the end of its file, with the directive's line and the
\* parsed override seen for it, and nothing else; nothing carries over to a
\* later transaction or to another file.
C24_LedgerScanner_Claimed ==
    pc \in {"scanned", "scanned_fork"} =>
        /\ ~ Val(outcome).raised
        /\ Len(Val(outcome).yielded) =
              Len(ImportedLines(call.files[1])) + Len(ImportedLines(call.files[2]))
        /\ \A k \in DOMAIN LedgerFiles :
              \A i \in DOMAIN ImportedLines(call.files[k]) :
                  EmittedFor(Val(outcome).yielded[OffsetOf(k) + i], call.files[k],
                             LedgerFiles[k], ImportedLines(call.files[k])[i])

----------------------------------------------------------------------------
(* Properties of SpecApply                                                  *)

LinesOf(txns) == {txns[i].lineno : i \in DOMAIN txns}

\* The existing entry is one the change set tells to drop.
Dropped(entry) ==
    /\ entry.type = "txn"
    /\ \/ entry.statement.line \in LinesOf(change_set.remove)
       \/ remove_dangling /\ entry.statement.line \in LinesOf(change_set.dangling)

\* The existing entries that stay, and the part of the new tree before the
\* additions.
Staying == SelectSeq(tree.entries, LAMBDA e : ~ Dropped(e))
ExistingPart ==
    SubSeq(new_tree.entries, 1, Len(new_tree.entries) - Len(change_set.add))

Updated(entry) ==
    entry.type = "txn" /\ entry.statement.line \in DOMAIN change_set.update

\* C25: apply_change_set drops exactly the existing entries on the lines of
\* remove, and those of dangling when remove_dangling is set; without the
\* flag the dangling entries stay unchanged; every entry that is neither
\* dropped nor updated is output unchanged, with its comments, in the
\* original order.
C25_EntriesKept ==
    pc = "applied" =>
        /\ Len(ExistingPart) = Len(Staying)
        /\ \A i \in DOMAIN Staying :
              /\ ~ Updated(Staying[i]) => ExistingPart[i] = Staying[i]
              /\ Updated(Staying[i]) =>
                    /\ ExistingPart[i].type = "txn"
                    /\ ExistingPart[i].statement.line = Staying[i].statement.line
        /\ ~ remove_dangling =>
              \A i \in DOMAIN tree.entries :
                  (/\ tree.entries[i].type = "txn"
                   /\ tree.entries[i].statement.line \in LinesOf(change_set.dangling))
                      => \E j \in DOMAIN ExistingPart :
                            ExistingPart[j] = tree.entries[i]

\* An entry was dropped for remove, a dangling entry stayed without the
\* flag, and an entry written by hand stayed.
C25_Witness ==
    /\ pc = "applied"
    /\ ~ remove_dangling
    /\ change_set.remove # <<>>
    /\ change_set.dangling # <<>>
    /\ Len(Staying) = 2
    /\ Len(tree.entries) = 3

\* The additions in the new tree, and the place of an entry after the sort
\* by (date, line).
AddedPart ==
    SubSeq(new_tree.entries, Len(new_tree.entries) - Len(change_set.add) + 1,
           Len(new_tree.entries))
SortedEntries == sort_entries(SelectSeq(new_tree.entries, LAMBDA e : e.type = "txn"))
PlaceOf(entry) == CHOOSE j \in DOMAIN SortedEntries : SortedEntries[j] = entry

\* C26: apply_change_set appends the additions after all existing entries
\* in the order of change_set.add, the i-th (from 0) on line
\* ADD_ENTRY_LINENO_OFFSET + i, so that their lines are pairwise distinct
\* and the sort by (date, line) puts every addition after every existing
\* entry of the same date.
C26_AdditionsLast_Claimed ==
    pc = "applied" =>
        /\ \A k \in DOMAIN change_set.add :
              AddedPart[k] = to_parser_entry(txn_to_text(change_set.add[k]),
                                             ADD_ENTRY_LINENO_OFFSET + (k - 1))
        /\ \A k, l \in DOMAIN AddedPart :
              k # l => AddedPart[k].statement.line # AddedPart[l].statement.line
        /\ \A k \in DOMAIN AddedPart : \A i \in DOMAIN ExistingPart :
              (/\ ExistingPart[i].type = "txn"
               /\ ExistingPart[i].statement.date = AddedPart[k].statement.date)
                  => PlaceOf(ExistingPart[i]) < PlaceOf(AddedPart[k])

----------------------------------------------------------------------------
(* Properties of SpecOrder                                                  *)

\* The imported transactions of every file of the ledger.
ScannedLedger ==
    (IF IsNone(ledger[LedgerFiles[1]]) THEN <<>>
     ELSE existing_of_file(LedgerFiles[1], Val(ledger[LedgerFiles[1]]).entries))
    \o (IF IsNone(ledger[LedgerFiles[2]]) THEN <<>>
        ELSE existing_of_file(LedgerFiles[2], Val(ledger[LedgerFiles[2]]).entries))

\* C27: no ledger file is written before every record has been processed,
\* the ledger has been scanned and the change sets have been computed; a run
\* that stops before that leaves every file as it was.
C27_RunOrdering ==
    [][ledger' # ledger =>
          /\ pc = "computed"
          /\ generated_txns = call.generated
          /\ deleted_txns = call.deleted
          /\ imported_txns = ScannedLedger
          /\ change_sets = compute_changes(call.generated, ScannedLedger, work_dir,
                                           call.deleted)]_vars

\* The first run wrote a file of the ledger with additions.
C27_Witness ==
    /\ pc = "start"
    /\ run = "second"
    /\ \E f \in DOMAIN change_sets : change_sets[f].add # <<>>
    /\ ~ IsNone(ledger[LedgerFiles[2]])

----------------------------------------------------------------------------
(* Properties of SpecEngine                                                 *)

\* The transactions of the given type the call has produced.
ProducedOf(type) ==
    SelectSeq(Val(call).transactions, LAMBDA t : t.type = type)

\* C30: the lists a call of ImportRuleEngine.process_transaction returns
\* hold the transactions of that call only, whatever calls were made before
\* it on the same or on another engine.
C30_CallIsolation_Claimed ==
    pc = "returned" =>
        /\ Val(Val(outcome).returned).generated_txns = ProducedOf("generated")
        /\ Val(Val(outcome).returned).deleted_txns = ProducedOf("deleted")
        /\ Val(Val(outcome).returned).unprocessed_txns = ProducedOf("unprocessed")

====
